---- MODULE Spec2Model ----
(***************************************************************************)
(* State-machine model of the quiz-solver session drivers.                 *)
(*                                                                         *)
(* Two drivers exist in the repository and both are modelled:              *)
(*   driver = "llm" : solveQuiz of src/solver-llm.js (the one server.js    *)
(*                    imports), with the per-task retry loop;              *)
(*   driver = "js"  : solveQuiz of solver.js (kept in the second half of   *)
(*                    src/data-processor.js), with the overall guard timer.*)
(*                                                                         *)
(* Every await of the code is one position (pc); an action is the          *)
(* completion of that await together with all synchronous code that runs   *)
(* up to the next await.  Wall-clock time advances in steps of Quantum ms  *)
(* while an await is pending.  Text is a sequence of one-character strings.*)
(***************************************************************************)
EXTENDS Integers, Sequences, FiniteSets, TLC

\* ---------------------------------------------------------------- constants
TIMEOUT_MS == 150000
GRACE_MS == 1000
MAX_RETRIES_PER_TASK == 3
MAX_TASKS == 20

\* ------------------------------------------------------------------- bounds
Quantum == 80000
MaxTicks == 2
MaxHistory == 3

\* ------------------------------------------------------------ JS-like values
\* A value is a tagged record: t is the JS type, n the number, s the text.
Null == [t |-> "null", n |-> 0, s |-> <<>>]
Undefined == [t |-> "undefined", n |-> 0, s |-> <<>>]
Num(k) == [t |-> "number", n |-> k, s |-> <<>>]
\* a non-integer number: n is the integer part, s the fraction digits
Frac(k, f) == [t |-> "number", n |-> k, s |-> f]
Str(cs) == [t |-> "string", n |-> 0, s |-> cs]

NoUrl == "null"

\* --------------------------------------------------------------- text tools
Digits == <<"0", "1", "2", "3", "4", "5", "6", "7", "8", "9">>
UpperAlpha == <<"A","B","C","D","E","F","G","H","I","J","K","L","M",
                "N","O","P","Q","R","S","T","U","V","W","X","Y","Z">>
LowerAlpha == <<"a","b","c","d","e","f","g","h","i","j","k","l","m",
                "n","o","p","q","r","s","t","u","v","w","x","y","z">>

IsSpace(c) == c \in {" ", "\n", "\t", "\r"}
IsDigit(c) == \E i \in 1..10 : Digits[i] = c
DigitVal(c) == (CHOOSE i \in 1..10 : Digits[i] = c) - 1
ToLower(c) ==
    IF \E i \in 1..26 : UpperAlpha[i] = c
    THEN LowerAlpha[CHOOSE i \in 1..26 : UpperAlpha[i] = c]
    ELSE c
LowerCase(cs) == [i \in 1..Len(cs) |-> ToLower(cs[i])]

\* positions of the characters of cs that are not white space
Inked(cs) == {i \in 1..Len(cs) : ~IsSpace(cs[i])}
SetMin(S) == CHOOSE x \in S : \A y \in S : x <= y
SetMax(S) == CHOOSE x \in S : \A y \in S : x >= y

\* String.prototype.trimStart
TrimLeft(cs) ==
    IF Inked(cs) = {} THEN <<>> ELSE SubSeq(cs, SetMin(Inked(cs)), Len(cs))
\* String.prototype.trim
Trim(cs) ==
    IF Inked(cs) = {} THEN <<>>
    ELSE SubSeq(cs, SetMin(Inked(cs)), SetMax(Inked(cs)))

\* cs.startsWith(p)
StartsWith(cs, p) == Len(cs) >= Len(p) /\ SubSeq(cs, 1, Len(p)) = p
\* cs.includes(p)
Contains(cs, p) ==
    \E i \in 0..(Len(cs) - Len(p)) : SubSeq(cs, i + 1, i + Len(p)) = p

\* cs.split(newline): the pieces between consecutive newline characters
LineStarts(cs) == {1} \cup {i + 1 : i \in {j \in 1..Len(cs) : cs[j] = "\n"}}
LineEnd(cs, from) ==
    LET nl == {j \in from..Len(cs) : cs[j] = "\n"}
    IN  IF nl = {} THEN Len(cs) ELSE SetMin(nl) - 1
SplitLines(cs) ==
    LET starts == LineStarts(cs)
        nth(k) == CHOOSE st \in starts : Cardinality({t \in starts : t < st}) = k - 1
    IN  [k \in 1..Cardinality(starts) |-> SubSeq(cs, nth(k), LineEnd(cs, nth(k)))]

\* lines.filter(l => l.trim())
NonBlankLines(cs) == SelectSeq(SplitLines(cs), LAMBDA l : Trim(l) # <<>>)

\* answer.replace of every back-quote, single and double quote by nothing
\* (the back-quote character is written "bq")
QuoteChars == {"bq", "'", "\""}
RemoveQuotes(cs) == SelectSeq(cs, LAMBDA c : c \notin QuoteChars)

PrefixLabels ==
    << <<"a","n","s","w","e","r",":">>,
       <<"f","i","n","a","l"," ","a","n","s","w","e","r",":">>,
       <<"r","e","s","u","l","t",":">> >>

\* answer.replace(/^(Answer:|Final Answer:|Result:)\s*/i, '')
StripLabel(cs) ==
    LET low == LowerCase(cs)
        hits == {i \in 1..Len(PrefixLabels) : StartsWith(low, PrefixLabels[i])}
    IN  IF hits = {} THEN cs
        ELSE LET i == CHOOSE k \in hits : \A m \in hits : k <= m
             IN  TrimLeft(SubSeq(cs, Len(PrefixLabels[i]) + 1, Len(cs)))

\* /^\d+$/.test(cs)
IsDigits(cs) == cs # <<>> /\ \A i \in 1..Len(cs) : IsDigit(cs[i])
\* /^\d+\.\d+$/.test(cs)
IsDecimal(cs) ==
    \E d \in 2..(Len(cs) - 1) :
        /\ cs[d] = "."
        /\ IsDigits(SubSeq(cs, 1, d - 1))
        /\ IsDigits(SubSeq(cs, d + 1, Len(cs)))

\* value of the first k digits of cs
RECURSIVE DigitsValue(_, _)
DigitsValue(cs, k) ==
    IF k = 0 THEN 0 ELSE 10 * DigitsValue(cs, k - 1) + DigitVal(cs[k])
\* parseInt(cs, 10) of a digit string
ParseInt(cs) == DigitsValue(cs, Len(cs))

\* cs without its trailing zeros
StripTrailingZeros(cs) ==
    LET nz == {i \in 1..Len(cs) : cs[i] # "0"}
    IN  IF nz = {} THEN <<>> ELSE SubSeq(cs, 1, SetMax(nz))

\* parseFloat(cs) of a string matching /^\d+\.\d+$/
ParseFloat(cs) ==
    LET d == CHOOSE k \in 2..(Len(cs) - 1) : cs[k] = "."
    IN  Frac(ParseInt(SubSeq(cs, 1, d - 1)),
             StripTrailingZeros(SubSeq(cs, d + 1, Len(cs))))

\* decimal digits of a natural number
RECURSIVE NatToChars(_)
NatToChars(k) ==
    IF k < 10 THEN <<Digits[k + 1]>>
    ELSE Append(NatToChars(k \div 10), Digits[(k % 10) + 1])

\* JSON.stringify(value)
Stringify(v) ==
    CASE v.t = "number" ->
            IF v.s = <<>> THEN NatToChars(v.n)
            ELSE NatToChars(v.n) \o <<".">> \o v.s
      [] v.t = "string" -> <<"\"">> \o v.s \o <<"\"">>
      [] v.t = "null" -> <<"n","u","l","l">>
      [] OTHER -> <<>>

\* previousAnswers.includes(x)
Includes(seq, x) == \E i \in 1..Len(seq) : seq[i] = x


\* ------------------------------------------------- answer resolution (llm)
CutoffWord == <<"c","u","t","o","f","f">>

\* Clean LLM response: last non-blank line, label and quotes removed,
\* digit strings coerced to numbers.
CleanLLMAnswer(trimmed) ==
    LET lines == NonBlankLines(trimmed)
        last == IF lines # <<>> THEN Trim(lines[Len(lines)]) ELSE <<>>
        a1 == IF last # <<>> THEN last ELSE trimmed
        a2 == Trim(StripLabel(a1))
        a3 == Trim(RemoveQuotes(a2))
    IN  IF IsDigits(a3) THEN Num(ParseInt(a3))
        ELSE IF IsDecimal(a3) THEN ParseFloat(a3)
        ELSE Str(a3)

\* An answer step that takes the sum of a processed CSV whatever the
\* conditions say.
FinalAnswerBug(answerResponse, csvSum, conditions) ==
    IF csvSum # Undefined THEN csvSum ELSE CleanLLMAnswer(Trim(answerResponse))

\* The answer solveSinglePage (solver-llm.js) returns: csvSum is the summary
\* sum of the first processed CSV (Undefined when no CSV was processed),
\* conditions the CONDITIONS line of the analysis.
FinalAnswer(answerResponse, csvSum, conditions) ==
    IF csvSum # Undefined /\ Contains(LowerCase(conditions), CutoffWord)
    THEN csvSum
    ELSE CleanLLMAnswer(Trim(answerResponse))

\* Responses of the reasoning capability used as inputs: 42, 0, a bare
\* Answer: label, and a labelled, quoted 42 followed by a newline.
LLMResponses ==
    { <<"4","2">>,
      <<"0">>,
      <<"A","n","s","w","e","r",":">>,
      <<"F","i","n","a","l"," ","A","n","s","w","e","r",":"," ","bq","4","2","bq","\n">> }
CsvSums == {Undefined, Num(0), Num(42)}
ConditionTexts == { <<>>, <<"C","u","t","o","f","f",":"," ","1","0","0">> }

\* -------------------------------------------------- answer resolution (js)
Anything == <<"a","n","y","t","h","i","n","g">>

IsZero(v) == v.t = "number" /\ v.n = 0 /\ v.s = <<>>

ensureNonEmptyAnswer(ans, fallback) ==
    IF ans = Null \/ ans = Undefined THEN Str(fallback)
    ELSE IF ans.t = "string" /\ Trim(ans.s) = <<>> THEN Str(fallback)
    ELSE IF IsZero(ans) THEN Str(<<"0">>)
    ELSE ans

\* Values the strategy chain of solveSinglePage (solver.js) leaves in
\* answer before the final normalisation, and a secret scraped from a page.
RawAnswers == {Null, Num(0), Num(42)}
ScrapedSecrets == {Str(<<"1","2","3">>)}

\* Every value solveSinglePage (solver-llm.js) can return as its answer for the
\* modelled LLM responses, CSV sums and page conditions.
LlmAnswers ==
    {FinalAnswer(r, csv, cond) :
        r \in LLMResponses, csv \in CsvSums, cond \in ConditionTexts}

\* Every value solveSinglePage (solver.js) can return as its answer: a scraped
\* secret as it is, or the computed answer through ensureNonEmptyAnswer.
JsAnswers ==
    ScrapedSecrets \cup {ensureNonEmptyAnswer(raw, Anything) : raw \in RawAnswers}

\* ------------------------------------------------------------ submission
SubmitUrls == {"o1/submit"}
\* new URL("/submit", url).toString()
FallbackUrl(url) == IF url = "u1" THEN "o1/submit" ELSE "o2/submit"

NoPost == [target |-> NoUrl, url |-> NoUrl, answer |-> Undefined]
\* axios.post(target, {email, secret, url, answer}); email and secret are
\* fixed for the session and left out.
Post(target, url, ans) == [target |-> target, url |-> url, answer |-> ans]

\* resp.data of a submission; NullResp is an empty body (and the initial
\* value of submitResp).
NullResp == [present |-> FALSE, correct |-> FALSE, url |-> NoUrl, reason |-> "undefined"]
Resp(c, u, r) == [present |-> TRUE, correct |-> c, url |-> u, reason |-> r]
\* The task the server links after a task: u1 is followed by u2, and u2 by
\* itself (a server that hands out the current URL again).
FollowingUrl(url) == "u2"
\* Bodies the server may answer a submission for the task at url with.
ServerResponses(url) ==
    {Resp(TRUE, u, "undefined") : u \in {NoUrl, FollowingUrl(url)}}
    \cup {Resp(FALSE, u, "wrong") : u \in {NoUrl, FollowingUrl(url)}}


\* ------------------------------------------------------------------- state
VARIABLES
    driver,           \* which solveQuiz runs: "llm" or "js"
    pc,               \* the await the session is suspended at
    elapsed,          \* Date.now() - start, in ms
    currentUrl,       \* currentUrl
    taskCount,        \* taskCount (solver-llm.js) / loopCount (solver.js)
    taskStart,        \* auxiliary: length of taskHistory when the task began
    attempt,          \* attempt of the retry loop (llm)
    submitSuccess,    \* submitSuccess (llm)
    previousAnswers,  \* previousAnswers: JSON texts of the wrong answers (llm)
    taskHistory,      \* taskHistory (llm)
    answer,           \* answer returned by solveSinglePage
    submitUrl,        \* submitUrl returned by solveSinglePage
    submitResp,       \* submitResp
    inflight,         \* the submission POST awaiting its response
    browser,          \* "none", "open" or "closed"
    closeCalls,       \* number of browser.close() invocations
    timer             \* overallGuard: "none", "armed", "cleared", "fired"

\* The parts solveQuiz relies on and the front door that starts it are
\* modelled one call at a time, each in a record of its own, and are checked
\* under a specification of their own while the session stands still.
VARIABLES
    frontDoor,        \* server.js: the /task handler and its requests
    llmCall,          \* llm-wrapper: one call of callLLM or callLLMWithVoting
    transcription,    \* audio-transcriber.js: one call of transcribeAudio
    fileDownload,     \* solver-llm.js: one call of downloadFile
    pageSolve         \* one call of solveSinglePage (either driver)

sessionVars == <<driver, pc, elapsed, currentUrl, taskCount, taskStart, attempt,
                 submitSuccess, previousAnswers, taskHistory, answer, submitUrl,
                 submitResp, inflight, browser, closeCalls, timer>>

compVars == <<frontDoor, llmCall, transcription, fileDownload, pageSolve>>

vars == <<driver, pc, elapsed, currentUrl, taskCount, taskStart, attempt, submitSuccess,
          previousAnswers, taskHistory, answer, submitUrl, submitResp,
          inflight, browser, closeCalls, timer,
          frontDoor, llmCall, transcription, fileDownload, pageSolve>>

\* A part that is not called.
Idle == [pc |-> "idle"]

Terminal == {"done", "rejected"}

Init ==
    /\ driver \in {"llm", "js"}
    /\ pc = "start"
    /\ elapsed = 0
    /\ currentUrl \in {"u1", NoUrl}
    /\ taskCount = 0
    /\ taskStart = 0
    /\ attempt = 0
    /\ submitSuccess = FALSE
    /\ previousAnswers = <<>>
    /\ taskHistory = <<>>
    /\ answer = Undefined
    /\ submitUrl = NoUrl
    /\ submitResp = NullResp
    /\ inflight = NoPost
    /\ browser = "none"
    /\ closeCalls = 0
    /\ timer = "none"
    /\ frontDoor = Idle
    /\ llmCall = Idle
    /\ transcription = Idle
    /\ fileDownload = Idle
    /\ pageSolve = Idle

\* ------------------------------------------------------------ loop pieces
\* A while condition that lets one task too many start.
LoopGuardBug(url, ms, count) ==
    url # NoUrl /\ ms < TIMEOUT_MS /\ count <= MAX_TASKS

\* The while condition of both drivers.
LoopGuard(url, ms, count) ==
    url # NoUrl /\ ms < TIMEOUT_MS /\ count < MAX_TASKS

\* browser.close() is invoked.
CloseBrowser ==
    /\ closeCalls' = closeCalls + 1
    /\ browser' = "closed"

\* The pieces below are the synchronous code between two awaits.  Each sets
\* every session variable except submitSuccess, submitResp, previousAnswers
\* (left to the handler that uses the piece) unless stated otherwise; tm is
\* the state of the guard timer when the piece runs.

\* First statements of a loop body up to the call of solveSinglePage
\* (sets all session variables).
StartTask(url, tm) ==
    /\ currentUrl' = url
    /\ taskCount' = taskCount + 1
    /\ taskStart' = Len(taskHistory)
    /\ attempt' = IF driver = "llm" THEN 1 ELSE attempt
    /\ submitSuccess' = FALSE
    /\ previousAnswers' = <<>>
    /\ answer' = Undefined
    /\ submitUrl' = NoUrl
    /\ submitResp' = NullResp
    /\ inflight' = NoPost
    /\ pc' = "resolve"
    /\ timer' = tm
    /\ UNCHANGED <<browser, closeCalls>>

\* Code after the while loop: (solver.js: clearTimeout, then) browser.close().
ExitLoop(url, tm) ==
    /\ currentUrl' = url
    /\ timer' = IF driver = "js" /\ tm = "armed" THEN "cleared" ELSE tm
    /\ CloseBrowser
    /\ inflight' = NoPost
    /\ pc' = "closing"
    /\ UNCHANGED <<taskCount, taskStart, attempt, answer, submitUrl>>

\* The catch block of solveQuiz: browser.close() inside try/catch; the guard
\* timer is not touched.
CatchClose ==
    /\ CloseBrowser
    /\ inflight' = NoPost
    /\ pc' = "closingCatch"
    /\ UNCHANGED <<currentUrl, taskCount, taskStart, attempt, answer, submitUrl, timer>>

\* Evaluation of the while condition with the given current URL (sets all
\* session variables).
LoopHead(url, tm) ==
    IF LoopGuard(url, elapsed, taskCount)
    THEN StartTask(url, tm)
    ELSE /\ ExitLoop(url, tm)
         /\ UNCHANGED <<submitSuccess, submitResp, previousAnswers>>

\* End of the retry loop of one task (llm): the check after the for loop,
\* then page.waitForTimeout(500).
AfterAttempts(success, url) ==
    IF ~success /\ url = NoUrl
    THEN ExitLoop(url, timer)
    ELSE /\ currentUrl' = url
         /\ inflight' = NoPost
         /\ pc' = "taskWait"
         /\ UNCHANGED <<taskCount, taskStart, attempt, answer, submitUrl, browser,
                        closeCalls, timer>>

\* A retry that does not count the attempt.
NextAttemptBug ==
    /\ attempt' = attempt
    /\ answer' = Undefined
    /\ submitUrl' = NoUrl
    /\ submitResp' = NullResp
    /\ inflight' = NoPost
    /\ pc' = "resolve"
    /\ UNCHANGED <<currentUrl, taskCount, taskStart, submitSuccess, previousAnswers,
                   browser, closeCalls, timer>>

\* A retry that keeps the answer and the submit URL of the previous attempt.
NextAttemptStale ==
    /\ attempt' = attempt + 1
    /\ answer' = answer
    /\ submitUrl' = submitUrl
    /\ submitResp' = NullResp
    /\ inflight' = NoPost
    /\ pc' = "resolve"
    /\ UNCHANGED <<currentUrl, taskCount, taskStart, submitSuccess, previousAnswers,
                   browser, closeCalls, timer>>

\* Next iteration of the retry loop (llm): solveSinglePage is called again
\* (sets all session variables).
NextAttempt ==
    /\ attempt' = attempt + 1
    /\ answer' = Undefined
    /\ submitUrl' = NoUrl
    /\ submitResp' = NullResp
    /\ inflight' = NoPost
    /\ pc' = "resolve"
    /\ UNCHANGED <<currentUrl, taskCount, taskStart, submitSuccess, previousAnswers,
                   browser, closeCalls, timer>>

\* A catch that never gives the task up.
AttemptFailedBug == NextAttempt

\* An attempt ended with an exception (llm): the catch inside the for loop,
\* also reached by "continue" after a failed fallback submission (sets all
\* session variables).
AttemptFailed ==
    IF attempt = MAX_RETRIES_PER_TASK
    THEN /\ ExitLoop(NoUrl, timer)
         /\ UNCHANGED <<submitSuccess, submitResp, previousAnswers>>
    ELSE NextAttempt

\* A history entry that records every response as incorrect.
HistoryEntryBug(url, ans, resp) ==
    [url |-> url, answer |-> ans, correct |-> FALSE, reason |-> resp.reason]

\* History entry pushed for a response.
HistoryEntry(url, ans, resp) ==
    IF resp.correct
    THEN [url |-> url, answer |-> ans, correct |-> TRUE, reason |-> "absent"]
    ELSE [url |-> url, answer |-> ans, correct |-> FALSE, reason |-> resp.reason]

\* A repetition test that never recognises an answer.
SeenBeforeBug(prev, ans) == FALSE

\* previousAnswers.includes(JSON.stringify(answer))
SeenBefore(prev, ans) == Includes(prev, Stringify(ans))

\* A last-attempt test that is off by one.
LastAttemptBug(a) == a = MAX_RETRIES_PER_TASK + 1

\* The last allowed attempt of a task.
LastAttempt(a) == a = MAX_RETRIES_PER_TASK

\* A response handling that keeps only the newest history entry.
HandleResponseLlmBug(resp) ==
    /\ submitResp' = resp
    /\ taskHistory' = <<HistoryEntry(currentUrl, answer, resp)>>
    /\ IF resp.correct
       THEN /\ submitSuccess' = TRUE
            /\ previousAnswers' = previousAnswers
            /\ AfterAttempts(TRUE, resp.url)
       ELSE /\ submitSuccess' = submitSuccess
            /\ IF SeenBefore(previousAnswers, answer)
               THEN /\ previousAnswers' = previousAnswers
                    /\ AfterAttempts(submitSuccess, resp.url)
               ELSE /\ previousAnswers' = Append(previousAnswers, Stringify(answer))
                    /\ IF resp.url # NoUrl /\ LastAttempt(attempt)
                       THEN AfterAttempts(submitSuccess, resp.url)
                       ELSE IF attempt < MAX_RETRIES_PER_TASK
                       THEN /\ pc' = "retryWait"
                            /\ inflight' = NoPost
                            /\ UNCHANGED <<currentUrl, taskCount, taskStart, attempt, answer,
                                           submitUrl, browser, closeCalls, timer>>
                       ELSE AfterAttempts(submitSuccess, currentUrl)

\* Handling of a submission response in solver-llm.js.
HandleResponseLlm(resp) ==
    /\ submitResp' = resp
    /\ taskHistory' = Append(taskHistory, HistoryEntry(currentUrl, answer, resp))
    /\ IF resp.correct
       THEN /\ submitSuccess' = TRUE
            /\ previousAnswers' = previousAnswers
            /\ AfterAttempts(TRUE, resp.url)
       ELSE /\ submitSuccess' = submitSuccess
            /\ IF SeenBefore(previousAnswers, answer)
               THEN /\ previousAnswers' = previousAnswers
                    /\ AfterAttempts(submitSuccess, resp.url)
               ELSE /\ previousAnswers' = Append(previousAnswers, Stringify(answer))
                    /\ IF resp.url # NoUrl /\ LastAttempt(attempt)
                       THEN AfterAttempts(submitSuccess, resp.url)
                       ELSE IF attempt < MAX_RETRIES_PER_TASK
                       THEN /\ pc' = "retryWait"
                            /\ inflight' = NoPost
                            /\ UNCHANGED <<currentUrl, taskCount, taskStart, attempt, answer,
                                           submitUrl, browser, closeCalls, timer>>
                       ELSE AfterAttempts(submitSuccess, currentUrl)

\* Handling of a submission response in solver.js.
HandleResponseJs(resp) ==
    /\ submitResp' = resp
    /\ UNCHANGED <<taskHistory, submitSuccess, previousAnswers>>
    /\ IF resp.present /\ resp.url # NoUrl
       THEN /\ currentUrl' = resp.url
            /\ inflight' = NoPost
            /\ pc' = "taskWait"
            /\ UNCHANGED <<taskCount, taskStart, attempt, answer, submitUrl, browser,
                           closeCalls, timer>>
       ELSE ExitLoop(currentUrl, timer)


\* ----------------------------------------------------------------- actions
\* solveQuiz is entered: the URL check, then chromium.launch().
Start ==
    /\ pc = "start"
    /\ pc' = IF currentUrl = NoUrl THEN "done" ELSE "launch"
    /\ UNCHANGED <<driver, elapsed, currentUrl, taskCount, taskStart, attempt,
                   submitSuccess, previousAnswers, taskHistory, answer,
                   submitUrl, submitResp, inflight, browser,
                   closeCalls, timer>>
    /\ UNCHANGED compVars

\* chromium.launch() resolves; browser.newPage() is called.
LaunchOk ==
    /\ pc = "launch"
    /\ browser' = "open"
    /\ pc' = "newPage"
    /\ UNCHANGED <<driver, elapsed, currentUrl, taskCount, taskStart, attempt,
                   submitSuccess, previousAnswers, taskHistory, answer,
                   submitUrl, submitResp, inflight, closeCalls, timer>>
    /\ UNCHANGED compVars

\* chromium.launch() rejects: solveQuiz rejects, no browser exists.
LaunchFail ==
    /\ pc = "launch"
    /\ pc' = "rejected"
    /\ UNCHANGED <<driver, elapsed, currentUrl, taskCount, taskStart, attempt,
                   submitSuccess, previousAnswers, taskHistory, answer,
                   submitUrl, submitResp, inflight, browser,
                   closeCalls, timer>>
    /\ UNCHANGED compVars

\* browser.newPage() resolves; solver.js arms the guard timer; the while
\* condition is evaluated for the first time.
NewPageOk ==
    /\ pc = "newPage"
    /\ LoopHead(currentUrl, IF driver = "js" THEN "armed" ELSE timer)
    /\ UNCHANGED <<driver, elapsed, taskHistory>>
    /\ UNCHANGED compVars

\* browser.newPage() rejects: it is outside the try block, solveQuiz rejects.
NewPageFail ==
    /\ pc = "newPage"
    /\ pc' = "rejected"
    /\ UNCHANGED <<driver, elapsed, currentUrl, taskCount, taskStart, attempt,
                   submitSuccess, previousAnswers, taskHistory, answer,
                   submitUrl, submitResp, inflight, browser,
                   closeCalls, timer>>
    /\ UNCHANGED compVars

\* solveSinglePage (solver-llm.js) returns; the submission is posted.  The
\* model follows a session up to MaxHistory answered submissions: after
\* that, resolutions only fail.
LlmResolveReturn ==
    /\ driver = "llm"
    /\ pc = "resolve"
    /\ Len(taskHistory) < MaxHistory
    /\ \E a \in LlmAnswers, su \in SubmitUrls :
          /\ answer' = a
          /\ submitUrl' = su
          /\ inflight' = Post(su, currentUrl, a)
    /\ pc' = "post"
    /\ UNCHANGED <<driver, elapsed, currentUrl, taskCount, taskStart, attempt,
                   submitSuccess, previousAnswers, taskHistory, submitResp,
                   browser, closeCalls, timer>>
    /\ UNCHANGED compVars

\* solveSinglePage (solver-llm.js) throws, e.g. callLLM failed.
LlmResolveThrow ==
    /\ driver = "llm"
    /\ pc = "resolve"
    /\ AttemptFailed
    /\ UNCHANGED <<driver, elapsed, taskHistory>>
    /\ UNCHANGED compVars

\* solveSinglePage (solver.js) returns; without a submit URL the loop is
\* left, otherwise the submission is posted.
JsResolveReturn ==
    /\ driver = "js"
    /\ pc = "resolve"
    /\ \E a \in JsAnswers,
          su \in SubmitUrls \cup {NoUrl} :
          IF su = NoUrl
          THEN /\ ExitLoop(currentUrl, timer)
               /\ UNCHANGED <<submitResp>>
          ELSE /\ answer' = a
               /\ submitUrl' = su
               /\ inflight' = Post(su, currentUrl, a)
               /\ pc' = "post"
               /\ UNCHANGED <<currentUrl, taskCount, taskStart, attempt, submitResp,
                              browser, closeCalls, timer>>
    /\ UNCHANGED <<driver, elapsed, taskHistory, submitSuccess, previousAnswers>>
    /\ UNCHANGED compVars

\* solveSinglePage (solver.js) throws: the catch block of solveQuiz runs.
JsResolveThrow ==
    /\ driver = "js"
    /\ pc = "resolve"
    /\ CatchClose
    /\ UNCHANGED <<driver, elapsed, taskHistory, submitSuccess, submitResp,
                   previousAnswers>>
    /\ UNCHANGED compVars

\* A submission POST is answered.
PostResponse ==
    /\ pc \in {"post", "fallback"}
    /\ \E resp \in ServerResponses(currentUrl) :
          IF driver = "llm"
          THEN HandleResponseLlm(resp)
          ELSE HandleResponseJs(resp)
    /\ UNCHANGED <<driver, elapsed>>
    /\ UNCHANGED compVars

\* postAnswer on the resolved submit URL throws (in solver-llm.js after its
\* own re-sends of the same payload): the payload goes to the /submit
\* fallback of the current URL.
PrimaryPostFail ==
    /\ pc = "post"
    /\ inflight' = Post(FallbackUrl(currentUrl), currentUrl, answer)
    /\ pc' = "fallback"
    /\ UNCHANGED <<driver, elapsed, currentUrl, taskCount, taskStart, attempt,
                   submitSuccess, previousAnswers, taskHistory, answer,
                   submitUrl, submitResp, browser, closeCalls, timer>>
    /\ UNCHANGED compVars

\* postAnswer on the fallback throws: the attempt is given up (llm) or the
\* loop is left (js).
FallbackPostFail ==
    /\ pc = "fallback"
    /\ IF driver = "llm"
       THEN AttemptFailed
       ELSE /\ ExitLoop(currentUrl, timer)
            /\ UNCHANGED <<submitSuccess, submitResp, previousAnswers>>
    /\ UNCHANGED <<driver, elapsed, taskHistory>>
    /\ UNCHANGED compVars

\* The 2 s pause before a retry ends (llm).
RetryWaitDone ==
    /\ pc = "retryWait"
    /\ NextAttempt
    /\ UNCHANGED <<driver, elapsed, taskHistory>>
    /\ UNCHANGED compVars

\* page.waitForTimeout at the end of a loop body resolves; the while
\* condition is evaluated.
TaskWaitOk ==
    /\ pc = "taskWait"
    /\ browser = "open"
    /\ LoopHead(currentUrl, timer)
    /\ UNCHANGED <<driver, elapsed, taskHistory>>
    /\ UNCHANGED compVars

\* page.waitForTimeout rejects (page or browser gone): the catch block runs.
TaskWaitFail ==
    /\ pc = "taskWait"
    /\ CatchClose
    /\ UNCHANGED <<driver, elapsed, taskHistory, submitSuccess, submitResp,
                   previousAnswers>>
    /\ UNCHANGED compVars

\* browser.close() settles; solveQuiz returns.
CloseDone ==
    /\ pc \in {"closing", "closingCatch"}
    /\ pc' = "done"
    /\ UNCHANGED <<driver, elapsed, currentUrl, taskCount, taskStart, attempt,
                   submitSuccess, previousAnswers, taskHistory, answer,
                   submitUrl, submitResp, inflight, browser,
                   closeCalls, timer>>
    /\ UNCHANGED compVars

\* A guard callback that closes the browser without waiting for its delay.
WatchdogEarly ==
    /\ timer = "armed"
    /\ timer' = "fired"
    /\ CloseBrowser
    /\ UNCHANGED <<driver, pc, elapsed, currentUrl, taskCount, taskStart, attempt,
                   submitSuccess, previousAnswers, taskHistory, answer,
                   submitUrl, submitResp, inflight>>
    /\ UNCHANGED compVars

\* The overallGuard callback of solver.js runs.
Watchdog ==
    /\ timer = "armed"
    /\ elapsed >= TIMEOUT_MS + GRACE_MS
    /\ timer' = "fired"
    /\ CloseBrowser
    /\ UNCHANGED <<driver, pc, elapsed, currentUrl, taskCount, taskStart, attempt,
                   submitSuccess, previousAnswers, taskHistory, answer,
                   submitUrl, submitResp, inflight>>
    /\ UNCHANGED compVars

\* Positions whose await can last long: browser start-up, a resolution, a
\* submission.  The fixed pauses (2 s, 500 ms, 300 ms) and browser.close()
\* are shorter than the clock step and take no model time.
LongAwaits == {"launch", "newPage", "resolve", "post", "fallback"}

\* Time passes while a long await or the guard timer is pending.
Tick ==
    /\ pc \in LongAwaits \/ (pc # "start" /\ timer = "armed")
    /\ elapsed + Quantum <= MaxTicks * Quantum
    /\ elapsed' = elapsed + Quantum
    /\ UNCHANGED <<driver, pc, currentUrl, taskCount, taskStart, attempt, submitSuccess,
                   previousAnswers, taskHistory, answer, submitUrl,
                   submitResp, inflight, browser, closeCalls, timer>>
    /\ UNCHANGED compVars

Step ==
    \/ Start
    \/ LaunchOk
    \/ LaunchFail
    \/ NewPageOk
    \/ NewPageFail
    \/ LlmResolveReturn
    \/ LlmResolveThrow
    \/ JsResolveReturn
    \/ JsResolveThrow
    \/ PostResponse
    \/ PrimaryPostFail
    \/ FallbackPostFail
    \/ RetryWaitDone
    \/ TaskWaitOk
    \/ TaskWaitFail
    \/ CloseDone
    \/ Watchdog

Next == Step \/ Tick

Spec == Init /\ [][Next]_vars

\* Every pending await settles and a due timer callback runs.
FairSpec == Spec /\ WF_vars(Step)


\* ------------------------------------------------- the session at rest
\* The session variables before solveQuiz is called; the specifications of
\* the parts keep the session in this state.
SessionParked ==
    /\ driver = "llm"
    /\ pc = "start"
    /\ elapsed = 0
    /\ currentUrl = NoUrl
    /\ taskCount = 0
    /\ taskStart = 0
    /\ attempt = 0
    /\ submitSuccess = FALSE
    /\ previousAnswers = <<>>
    /\ taskHistory = <<>>
    /\ answer = Undefined
    /\ submitUrl = NoUrl
    /\ submitResp = NullResp
    /\ inflight = NoPost
    /\ browser = "none"
    /\ closeCalls = 0
    /\ timer = "none"

\* ----------------------------------------------- one call of solveSinglePage
\* allFileUrls of solver-llm.js: the files the analysis lists and the CSV and
\* PDF links discovered on the page.
AllFileUrls(in) ==
    (IF in.audio THEN <<"audio">> ELSE <<>>)
    \o (IF in.csv THEN <<"csv">> ELSE <<>>)
    \o (IF in.pdf THEN <<"pdf">> ELSE <<>>)

\* The exception leaves solveSinglePage.
PageThrow(ps, cause) == [ps EXCEPT !.pc = "thrown", !.cause = cause]

\* A failure caught inside solveSinglePage.
PageCaught(ps, what) == [ps EXCEPT !.failures = @ \cup {what}]

\* Position after the download loop of solver-llm.js has handled a file.
AfterDownload(todo, kept) ==
    IF todo # <<>> THEN "download"
    ELSE IF "audio" \in kept THEN "transcribe"
    ELSE IF "csv" \in kept THEN "process"
    ELSE "solve"

\* Determine submit URL (solver-llm.js): the URL of the analysis or of the
\* page text, else the /submit guess, which throws when it cannot be built.
LlmSubmitUrl(ps) ==
    IF ps.in.submitShown
    THEN [ps EXCEPT !.pc = "returned", !.submitUrl = "o1/submit"]
    ELSE IF ps.in.hierarchical
    THEN [ps EXCEPT !.pc = "returned", !.submitUrl = "o1/submit"]
    ELSE PageThrow(ps, "invalidUrl")

\* Determine submit URL (solver.js): a candidate, else the /submit guess
\* inside try/catch, else null.
JsSubmitUrl(in) ==
    IF in.submitShown \/ in.hierarchical THEN "o1/submit" ELSE NoUrl

\* The variables a step of one part leaves alone: the session and the
\* other parts.
RestUnchanged(others) == UNCHANGED <<sessionVars, others>>

\* A call that has just been made, for either driver and for everything a
\* task page can offer: links to an audio file, a CSV and a PDF (for
\* solver.js the PDF stands for the file URL of a JSON block), a scrape
\* instruction, a visible submit URL, and whether new URL("/submit", url) can
\* be built from the page URL (it cannot for a data: or about: URL).
PageInit ==
    /\ SessionParked
    /\ frontDoor = Idle
    /\ llmCall = Idle
    /\ transcription = Idle
    /\ fileDownload = Idle
    /\ pageSolve \in
          [pc : {"render"}, driver : {"llm", "js"},
           in : [audio : BOOLEAN, csv : BOOLEAN, pdf : BOOLEAN, scrape : BOOLEAN,
                 submitShown : BOOLEAN, hierarchical : BOOLEAN],
           todo : {<<>>}, kept : {{}}, failures : {{}}, cause : {"none"},
           submitUrl : {NoUrl}, tried : {<<>>}, from : {"none"}, zero : {FALSE}]

\* page.goto (its rejection is swallowed), the pause, and the reads of the
\* page text and HTML; a read rejects when the page or browser is closed.
PgRender ==
    /\ pageSolve.pc = "render"
    /\ \E ok \in BOOLEAN :
          pageSolve' =
            IF ~ok THEN PageThrow(pageSolve, "page")
            ELSE [pageSolve EXCEPT !.pc =
                    IF pageSolve.driver = "llm" THEN "analysis"
                    ELSE IF pageSolve.in.scrape THEN "scrape" ELSE "resources"]
    /\ RestUnchanged(<<frontDoor, llmCall, transcription, fileDownload>>)

\* Step 1 of solver-llm.js: callLLM returns the analysis, or throws because
\* all LLM attempts failed.
PgAnalysis ==
    /\ pageSolve.pc = "analysis"
    /\ \E ok \in BOOLEAN :
          pageSolve' =
            IF ~ok THEN PageThrow(pageSolve, "llm")
            ELSE [pageSolve EXCEPT !.pc = "discover",
                                   !.todo = AllFileUrls(pageSolve.in)]
    /\ RestUnchanged(<<frontDoor, llmCall, transcription, fileDownload>>)

\* Step 2 of solver-llm.js: discoverFiles resolves or rejects.
PgDiscover ==
    /\ pageSolve.pc = "discover"
    /\ \E ok \in BOOLEAN :
          pageSolve' =
            IF ~ok THEN PageThrow(pageSolve, "page")
            ELSE [pageSolve EXCEPT !.pc =
                    IF pageSolve.in.scrape THEN "scrape"
                    ELSE AfterDownload(pageSolve.todo, pageSolve.kept)]
    /\ RestUnchanged(<<frontDoor, llmCall, transcription, fileDownload>>)

\* Step 3 of solver-llm.js: the scrape resolves or fails inside try/catch.
PgScrapeDone ==
    /\ pageSolve.pc = "scrape"
    /\ pageSolve.driver = "llm"
    /\ \E ok \in BOOLEAN :
          pageSolve' = [(IF ok THEN pageSolve ELSE PageCaught(pageSolve, "scrape"))
                          EXCEPT !.pc = AfterDownload(pageSolve.todo, pageSolve.kept)]
    /\ RestUnchanged(<<frontDoor, llmCall, transcription, fileDownload>>)

\* Step 4 of solver-llm.js: the next file is downloaded and decoded; when
\* downloadFile throws after its retries, or extractPdfText rejects, the
\* error is caught and the file left out.
PgDownload ==
    /\ pageSolve.pc = "download"
    /\ \E what \in {"none", "download", "decode"} :
          /\ what = "decode" => Head(pageSolve.todo) = "pdf"
          /\ LET f == Head(pageSolve.todo)
                 rest == Tail(pageSolve.todo)
                 kept == IF what = "none" THEN pageSolve.kept \cup {f} ELSE pageSolve.kept
             IN  pageSolve' =
                   [(IF what = "none" THEN pageSolve ELSE PageCaught(pageSolve, what))
                      EXCEPT !.todo = rest, !.kept = kept,
                             !.pc = AfterDownload(rest, kept)]
    /\ RestUnchanged(<<frontDoor, llmCall, transcription, fileDownload>>)

\* Step 5 of solver-llm.js: transcribeAudio returns a transcript or null.
PgTranscribeDone ==
    /\ pageSolve.pc = "transcribe"
    /\ \E heard \in BOOLEAN :
          pageSolve' = [(IF heard THEN pageSolve ELSE PageCaught(pageSolve, "transcribe"))
                          EXCEPT !.pc = IF "csv" \in pageSolve.kept THEN "process" ELSE "solve"]
    /\ RestUnchanged(<<frontDoor, llmCall, transcription, fileDownload>>)

\* Step 6 of solver-llm.js: processCSV resolves for the CSV files kept.
PgProcessDone ==
    /\ pageSolve.pc = "process"
    /\ pageSolve' = [pageSolve EXCEPT !.pc = "solve"]
    /\ RestUnchanged(<<frontDoor, llmCall, transcription, fileDownload>>)

\* callLLM returns the answer, which is cleaned, and the submit URL is
\* determined; or callLLM throws.
PgSolve ==
    /\ pageSolve.pc = "solve"
    /\ \E ok \in BOOLEAN :
          pageSolve' = IF ok THEN LlmSubmitUrl(pageSolve)
                       ELSE PageThrow(pageSolve, "llm")
    /\ RestUnchanged(<<frontDoor, llmCall, transcription, fileDownload>>)

\* solver.js returns with the submit URL it determined and the answer one
\* of its strategies gave: from names the strategy, zero tells whether the
\* answer is 0, tried lists the strategies run, in their order.
JsReturn(ps, from, zero) ==
    [ps EXCEPT !.pc = "returned", !.from = from, !.zero = zero,
               !.tried = IF from = "text" THEN Append(@, from) ELSE @]

\* The scrape instruction of solver.js: it yields a secret, and the submit
\* URL is determined and the secret returned at once; or it yields nothing
\* or fails inside try/catch, and the page itself is looked at.
PgScrapeJs ==
    /\ pageSolve.pc = "scrape"
    /\ pageSolve.driver = "js"
    /\ \E secret \in BOOLEAN :
          pageSolve' =
            IF secret
            THEN [pageSolve EXCEPT !.pc = "returned", !.from = "secret",
                                   !.submitUrl = JsSubmitUrl(pageSolve.in)]
            ELSE [PageCaught(pageSolve, "scrape") EXCEPT !.pc = "resources"]
    /\ RestUnchanged(<<frontDoor, llmCall, transcription, fileDownload>>)

\* extractResourcesFromDOM resolves or rejects; the submit URL is determined
\* and the strategy chosen: audio first, else CSV, else the file of a JSON
\* block, else the numbers of the page text.
PgResources ==
    /\ pageSolve.pc = "resources"
    /\ \E ok \in BOOLEAN, zero \in BOOLEAN :
          pageSolve' =
            IF ~ok THEN PageThrow(pageSolve, "page")
            ELSE LET ps == [pageSolve EXCEPT !.submitUrl = JsSubmitUrl(pageSolve.in)]
                 IN  IF ps.in.audio
                     THEN [ps EXCEPT !.pc = "audioHelper", !.tried = <<"audio">>]
                     ELSE IF ps.in.csv
                     THEN [ps EXCEPT !.pc = "csvDownload", !.tried = <<"csv">>]
                     ELSE IF ps.in.pdf
                     THEN [ps EXCEPT !.pc = "jsonDownload", !.tried = <<"file">>]
                     ELSE JsReturn(ps, "text", zero)
    /\ RestUnchanged(<<frontDoor, llmCall, transcription, fileDownload>>)

\* handleCsvAudioAndSum on the audio URL: it yields numbers; or it yields
\* none and the CSV, if any, is downloaded inside the try; or it throws and
\* the catch block downloads the CSV, if any.
PgAudioHelper ==
    /\ pageSolve.pc = "audioHelper"
    /\ \E how \in {"numbers", "noNumbers", "throws"}, zero \in BOOLEAN :
          pageSolve' =
            IF how = "numbers" THEN JsReturn(pageSolve, "audio", zero)
            ELSE IF how = "noNumbers"
            THEN (IF pageSolve.in.csv
                  THEN [pageSolve EXCEPT !.pc = "csvAfterAudio",
                                         !.tried = Append(@, "csv")]
                  ELSE JsReturn(pageSolve, "text", zero))
            ELSE (IF pageSolve.in.csv
                  THEN [PageCaught(pageSolve, "audio") EXCEPT
                           !.pc = "fallbackDownload", !.tried = Append(@, "csv")]
                  ELSE JsReturn(PageCaught(pageSolve, "audio"), "text", zero))
    /\ RestUnchanged(<<frontDoor, llmCall, transcription, fileDownload>>)

\* The CSV download and sum inside the try succeed; or they fail and the
\* catch block downloads the CSV again.
PgCsvAfterAudio ==
    /\ pageSolve.pc = "csvAfterAudio"
    /\ \E what \in {"none", "download", "decode"}, zero \in BOOLEAN :
          pageSolve' =
            IF what = "none" THEN JsReturn(pageSolve, "csv", zero)
            ELSE [PageCaught(pageSolve, what) EXCEPT !.pc = "fallbackDownload"]
    /\ RestUnchanged(<<frontDoor, llmCall, transcription, fileDownload>>)

\* The download and sum of the catch block succeed; or downloadBuffer or
\* sumCsvColumnEnhanced rejects inside the catch block and nothing catches
\* it.
PgFallback ==
    /\ pageSolve.pc = "fallbackDownload"
    /\ \E what \in {"none", "download", "decode"}, zero \in BOOLEAN :
          pageSolve' =
            IF what = "none" THEN JsReturn(pageSolve, "csv", zero)
            ELSE PageThrow(pageSolve, what)
    /\ RestUnchanged(<<frontDoor, llmCall, transcription, fileDownload>>)

\* CSV strategy: downloadBuffer resolves; or it rejects, is caught, and the
\* page text is summed instead.
PgCsvDownload ==
    /\ pageSolve.pc = "csvDownload"
    /\ \E ok \in BOOLEAN, zero \in BOOLEAN :
          pageSolve' =
            IF ok THEN [pageSolve EXCEPT !.pc = "csvHelper"]
            ELSE JsReturn(PageCaught(pageSolve, "download"), "text", zero)
    /\ RestUnchanged(<<frontDoor, llmCall, transcription, fileDownload>>)

\* handleCsvAudioAndSum and, where used, sumCsvColumnEnhanced succeed; or
\* sumCsvColumnEnhanced rejects and is caught by the outer try.
PgCsvHelper ==
    /\ pageSolve.pc = "csvHelper"
    /\ \E ok \in BOOLEAN, zero \in BOOLEAN :
          pageSolve' = IF ok THEN JsReturn(pageSolve, "csv", zero)
                       ELSE JsReturn(PageCaught(pageSolve, "decode"), "text", zero)
    /\ RestUnchanged(<<frontDoor, llmCall, transcription, fileDownload>>)

\* File of a JSON block: download and processing succeed, or fail inside the
\* try and the page text is summed instead.
PgJsonFileDone ==
    /\ pageSolve.pc = "jsonDownload"
    /\ \E what \in {"none", "download", "decode"}, zero \in BOOLEAN :
          pageSolve' = IF what = "none" THEN JsReturn(pageSolve, "file", zero)
                       ELSE JsReturn(PageCaught(pageSolve, what), "text", zero)
    /\ RestUnchanged(<<frontDoor, llmCall, transcription, fileDownload>>)

PageSpec ==
    PageInit /\ [][PgRender \/ PgAnalysis \/ PgDiscover \/ PgScrapeDone
                   \/ PgDownload \/ PgTranscribeDone \/ PgProcessDone \/ PgSolve
                   \/ PgScrapeJs \/ PgResources \/ PgAudioHelper \/ PgCsvAfterAudio
                   \/ PgFallback \/ PgCsvDownload \/ PgCsvHelper \/ PgJsonFileDone]_vars

\* ---------------------------------------------------- the front door
\* server.js: POST /task.  Each request has its own handler run; events[r]
\* is what has happened for request r so far: the status of a response
\* sent, "solveQuiz" for the call, "resolved" or "rejected" for its outcome.
MaxRequests == 2
Requests == 1..MaxRequests

\* A server secret that accepts every secret a request brings.
VerdictBug(serverSecret, req) ==
    IF ~req.json THEN "400"
    ELSE IF req.body # "object" THEN "400"
    ELSE IF req.secret = "none" THEN "403"
    ELSE "200"

\* A secret check that only compares: an absent secret equals an absent
\* server secret.
VerdictCompareOnly(serverSecret, req) ==
    IF ~req.json THEN "400"
    ELSE IF req.body # "object" THEN "400"
    ELSE IF req.secret # serverSecret THEN "403"
    ELSE "200"

\* The checks of the handler in their order, and the status they lead to.
Verdict(serverSecret, req) ==
    IF ~req.json THEN "400"
    ELSE IF req.body # "object" THEN "400"
    ELSE IF req.secret = "none" \/ req.secret # serverSecret THEN "403"
    ELSE "200"

\* res.status(200).json(...), then solveQuiz(payload) is called.
Accept(ev) == ev \o <<"200", "solveQuiz">>

\* A handler that answers again when the session failed.
SettledBug(ev, how) ==
    IF how = "rejected" THEN ev \o <<how, "500">> ELSE Append(ev, how)

\* await solveQuiz(payload) settles; a rejection is caught and logged.
Settled(ev, how) == Append(ev, how)

\* The responses sent for a request.
Responses(ev) == SelectSeq(ev, LAMBDA e : e \in {"200", "400", "403", "500"})

FrontInit ==
    /\ SessionParked
    /\ llmCall = Idle
    /\ transcription = Idle
    /\ fileDownload = Idle
    /\ pageSolve = Idle
    /\ frontDoor \in [pc : {"listening"},
                      SERVER_SECRET : {"none", "s1"},
                      \* req.is('application/json'), whether req.body is an
                      \* object, and payload.secret ("none": absent or empty)
                      req : [Requests -> [json : BOOLEAN, body : {"object", "none"},
                                          secret : {"none", "s1", "s2"}]],
                      at : [Requests -> {"arrived"}],
                      events : [Requests -> {<<>>}]]

\* The handler runs for request r up to its first await or its return.
Handle(r) ==
    /\ frontDoor.at[r] = "arrived"
    /\ LET status == Verdict(frontDoor.SERVER_SECRET, frontDoor.req[r])
       IN  frontDoor' =
             IF status = "200"
             THEN [frontDoor EXCEPT !.at[r] = "solving",
                                    !.events[r] = Accept(@)]
             ELSE [frontDoor EXCEPT !.at[r] = "closed",
                                    !.events[r] = Append(@, status)]
    /\ RestUnchanged(<<llmCall, transcription, fileDownload, pageSolve>>)

\* solveQuiz settles for request r; a rejection is caught and logged.
SolveSettled(r) ==
    /\ frontDoor.at[r] = "solving"
    /\ \E how \in {"resolved", "rejected"} :
          frontDoor' = [frontDoor EXCEPT !.at[r] = "finished",
                                         !.events[r] = Settled(@, how)]
    /\ RestUnchanged(<<llmCall, transcription, fileDownload, pageSolve>>)

FrontSpec ==
    FrontInit /\ [][\E r \in Requests : Handle(r) \/ SolveSettled(r)]_vars

\* ---------------------------------------------------- the LLM wrapper
\* llm-wrapper.js: one call of callLLM or of callLLMWithVoting.  A provider
\* call (callOpenAI, callGroq) never throws: it returns the text of the
\* completion, or null when its key is missing, the request failed or the
\* completion was empty.
MAX_RETRIES == 2
Providers == {"openai", "groq"}
LlmNull == "null"
LlmTexts == {"t1", "t2", "t3"}

\* The model callLLM tries second.
OtherModel(preferredModel) == IF preferredModel = "openai" THEN "groq" ELSE "openai"

\* A loop that runs one round more than asked.
MoreRoundsBug(round, retries) == round <= retries + 1

\* The loop condition of callLLM.
MoreRounds(round, retries) == round <= retries

\* Voting that prefers Groq.
VoteResultBug(openaiResult, groqResult) ==
    IF groqResult # LlmNull THEN groqResult ELSE openaiResult

\* openaiResult || groqResult
VoteResult(openaiResult, groqResult) ==
    IF openaiResult # LlmNull THEN openaiResult ELSE groqResult

\* A call that has just been made, with its options.
LlmCall(mode, options) ==
    [pc |-> "entry", mode |-> mode,
     retries |-> options.retries, preferredModel |-> options.preferredModel,
     attempt |-> 0,
     calls |-> <<>>,           \* provider calls made, in order
     answers |-> <<>>,         \* what each finished call returned
     result |-> LlmNull, error |-> "none"]

LlmInit ==
    /\ SessionParked
    /\ frontDoor = Idle
    /\ transcription = Idle
    /\ fileDownload = Idle
    /\ pageSolve = Idle
    \* retries defaults to MAX_RETRIES, preferredModel to 'openai'
    /\ llmCall \in {LlmCall("call", o) :
                        o \in [retries : 0..MAX_RETRIES, preferredModel : Providers]}
                   \cup {LlmCall("vote", [retries |-> MAX_RETRIES, preferredModel |-> "openai"])}

\* The end of a round of callLLM in which both models returned nothing.
RoundOver(lc) ==
    IF MoreRounds(lc.attempt + 1, lc.retries)
    THEN [lc EXCEPT !.pc = "delay", !.attempt = @ + 1]
    ELSE [lc EXCEPT !.pc = "thrown", !.attempt = @ + 1,
                    !.error = "All LLM attempts failed"]

\* callLLM is entered: round 0 calls the preferred model at once.
CallBegin ==
    /\ llmCall.pc = "entry" /\ llmCall.mode = "call"
    /\ llmCall' = IF MoreRounds(0, llmCall.retries)
                  THEN [llmCall EXCEPT !.pc = "first",
                                       !.calls = <<llmCall.preferredModel>>]
                  ELSE [llmCall EXCEPT !.pc = "thrown",
                                       !.error = "All LLM attempts failed"]
    /\ RestUnchanged(<<frontDoor, transcription, fileDownload, pageSolve>>)

\* The model called, preferred or other, answers: callLLM returns its text.
ModelAnswers ==
    /\ llmCall.pc \in {"first", "second"}
    /\ \E t \in LlmTexts :
          llmCall' = [llmCall EXCEPT !.pc = "returned", !.result = t,
                                     !.answers = Append(@, t)]
    /\ RestUnchanged(<<frontDoor, transcription, fileDownload, pageSolve>>)

\* The preferred model returns nothing: the other model is called.
FirstNull ==
    /\ llmCall.pc = "first"
    /\ llmCall' = [llmCall EXCEPT !.pc = "second",
                                  !.answers = Append(@, LlmNull),
                                  !.calls = Append(@, OtherModel(llmCall.preferredModel))]
    /\ RestUnchanged(<<frontDoor, transcription, fileDownload, pageSolve>>)

\* The other model returns nothing too: next round after a delay, or throw.
SecondNull ==
    /\ llmCall.pc = "second"
    /\ llmCall' = RoundOver([llmCall EXCEPT !.answers = Append(@, LlmNull)])
    /\ RestUnchanged(<<frontDoor, transcription, fileDownload, pageSolve>>)

\* The RETRY_DELAY has passed: the round calls the preferred model.
DelayDone ==
    /\ llmCall.pc = "delay"
    /\ llmCall' = [llmCall EXCEPT !.pc = "first",
                                  !.calls = Append(@, llmCall.preferredModel)]
    /\ RestUnchanged(<<frontDoor, transcription, fileDownload, pageSolve>>)

\* callLLMWithVoting is entered: both provider calls are made at once.
\* In this mode answers is indexed by provider and order lists the
\* providers as their calls finish.
VoteBegin ==
    /\ llmCall.pc = "entry" /\ llmCall.mode = "vote"
    /\ llmCall' = [pc |-> "voting", mode |-> "vote",
                   calls |-> <<"openai", "groq">>,
                   answers |-> [p \in Providers |-> "pending"],
                   order |-> <<>>,
                   result |-> LlmNull, error |-> "none"]
    /\ RestUnchanged(<<frontDoor, transcription, fileDownload, pageSolve>>)

\* One of the two calls finishes; when it is the second one Promise.all
\* resolves and the function ends.
VoteProviderDone ==
    /\ llmCall.pc = "voting"
    /\ \E p \in Providers, r \in LlmTexts \cup {LlmNull} :
          /\ llmCall.answers[p] = "pending"
          /\ LET got == [llmCall.answers EXCEPT ![p] = r]
                 done == [llmCall EXCEPT !.answers = got, !.order = Append(@, p)]
             IN  llmCall' =
                   IF \E q \in Providers : got[q] = "pending"
                   THEN done
                   ELSE IF \A q \in Providers : got[q] = LlmNull
                        THEN [done EXCEPT !.pc = "thrown", !.error = "All models failed"]
                        ELSE [done EXCEPT !.pc = "returned",
                                          !.result = VoteResult(got["openai"], got["groq"])]
    /\ RestUnchanged(<<frontDoor, transcription, fileDownload, pageSolve>>)

LlmSpec ==
    LlmInit /\ [][CallBegin \/ ModelAnswers \/ FirstNull \/ SecondNull \/ DelayDone
                  \/ VoteBegin \/ VoteProviderDone]_vars

\* ---------------------------------------------------- transcription
\* audio-transcriber.js: one call of transcribeAudio, and what its caller in
\* solveSinglePage of solver-llm.js does with the result.
TranscriptionOrder == <<"openai", "aipipe", "groq">>
TranscribeNull == "null"

\* A chain that calls the next provider whether it is configured or not.
NextProviderBug(keys, k) ==
    LET later == (k + 1)..Len(TranscriptionOrder)
    IN  IF later = {} THEN 0
        ELSE CHOOSE i \in later : \A j \in later : i <= j

\* The if (process.env....) tests in their order: the index of the first
\* configured provider after position k, 0 if none.
NextProvider(keys, k) ==
    LET later == {i \in (k + 1)..Len(TranscriptionOrder) : TranscriptionOrder[i] \in keys}
    IN  IF later = {} THEN 0
        ELSE CHOOSE i \in later : \A j \in later : i <= j

\* A finally block that removes only the file that was to be transcribed.
CleanupBug(tr) ==
    [tr EXCEPT !.disk = @ \ {tr.fileToTranscribe},
               !.unlinked = <<tr.fileToTranscribe>>]

\* The finally block of transcribeAudio: unlink(inputPath), then
\* unlink(wavPath), each awaited and each in a try/catch of its own, so the
\* rejection for a file that does not exist is swallowed.
Cleanup(tr) ==
    [tr EXCEPT !.disk = (@ \ {"input"}) \ {"wav"},
               !.unlinked = tr.unlinked \o <<"input", "wav">>]

\* The call of the provider at position k, or return null (through the
\* finally block) when k is 0.
TryFrom(tr, k) ==
    IF k = 0
    THEN Cleanup([tr EXCEPT !.pc = "returned", !.at = 0, !.result = TranscribeNull])
    ELSE [tr EXCEPT !.pc = "calling", !.at = k,
                    !.calls = Append(@, TranscriptionOrder[k])]

\* if (audioTranscript) ... parseAudioInstructions never returns null.
AudioInstructions(audioTranscript) ==
    IF audioTranscript \in {TranscribeNull, ""} THEN "none" ELSE "parsed"

AudioInit ==
    /\ SessionParked
    /\ frontDoor = Idle
    /\ llmCall = Idle
    /\ fileDownload = Idle
    /\ pageSolve = Idle
    /\ transcription \in
          [pc : {"saving"},
           keys : SUBSET {"openai", "aipipe", "groq"},  \* providers with a key in the environment
           wav : BOOLEAN,                               \* fileName ends with .wav
           fileToTranscribe : {"input"},
           disk : {{}},                                 \* temporary files that exist: "input", "wav"
           unlinked : {<<>>},                           \* files whose removal was attempted, in order
           at : {0},                                    \* position of the provider being called
           calls : {<<>>},                              \* providers called, in order
           failed : {{}},                               \* providers whose call threw
           result : {TranscribeNull},
           error : {"none"},
           audioInstructions : {"unset"}]

\* writeFile resolves; the conversion to WAV (synchronous, its failure is
\* caught) is made unless the file is a .wav; the first configured provider
\* is called, or null is returned.  A conversion that fails may have
\* written a part of its output.
SaveOk ==
    /\ transcription.pc = "saving"
    /\ \E converted, written \in BOOLEAN :
          /\ transcription.wav => ~converted /\ ~written
          /\ converted => written
          /\ transcription' =
                TryFrom([transcription EXCEPT
                            !.fileToTranscribe = IF converted THEN "wav" ELSE "input",
                            !.disk = {"input"} \cup (IF written THEN {"wav"} ELSE {})],
                        NextProvider(transcription.keys, 0))
    /\ RestUnchanged(<<frontDoor, llmCall, fileDownload, pageSolve>>)

\* writeFile rejects, with or without a part of the file written: only the
\* finally block runs and the call rejects.
SaveFail ==
    /\ transcription.pc = "saving"
    /\ \E left \in SUBSET {"input"} :
          transcription' = Cleanup([transcription EXCEPT !.pc = "thrown",
                                                         !.error = "writeFile",
                                                         !.disk = left])
    /\ RestUnchanged(<<frontDoor, llmCall, fileDownload, pageSolve>>)

\* The provider being called answers: its text, or '', is returned.
ProviderAnswers ==
    /\ transcription.pc = "calling"
    /\ \E t \in {"", "words"} :       \* response.data?.text || ''
          transcription' = Cleanup([transcription EXCEPT !.pc = "returned", !.result = t])
    /\ RestUnchanged(<<frontDoor, llmCall, fileDownload, pageSolve>>)

\* The call of the provider throws: caught, the next configured one is tried.
ProviderFails ==
    /\ transcription.pc = "calling"
    /\ transcription' =
          TryFrom([transcription EXCEPT
                      !.failed = @ \cup {TranscriptionOrder[transcription.at]}],
                  NextProvider(transcription.keys, transcription.at))
    /\ RestUnchanged(<<frontDoor, llmCall, fileDownload, pageSolve>>)

\* solveSinglePage goes on with the transcript it got.
CallerGoesOn ==
    /\ transcription.pc = "returned"
    /\ transcription' = [transcription EXCEPT
                            !.pc = "caller",
                            !.audioInstructions = AudioInstructions(transcription.result)]
    /\ RestUnchanged(<<frontDoor, llmCall, fileDownload, pageSolve>>)

AudioSpec ==
    AudioInit /\ [][SaveOk \/ SaveFail \/ ProviderAnswers \/ ProviderFails
                    \/ CallerGoesOn]_vars

\* ------------------------------------- calls of transcribeAudio that overlap
\* Two calls of transcribeAudio made by sessions of the same process, with
\* the temporary directory they share.  Date.now() is read in milliseconds
\* and does not go back; MaxClock bounds its values.
MaxClock == 2
Calls == {1, 2}

OverlapInit ==
    /\ SessionParked
    /\ frontDoor = Idle
    /\ llmCall = Idle
    /\ fileDownload = Idle
    /\ pageSolve = Idle
    /\ transcription =
          [pc |-> "overlap",
           now |-> 1,                        \* the last value Date.now() gave
           disk |-> {},                      \* the files of os.tmpdir()
           call |-> [c \in Calls |->
                       [pc |-> "idle", fileName |-> "none",
                        inputPath |-> "none", wavPath |-> "none"]]]

\* transcribeAudio(audioBuffer, fileName) is called: both paths are made
\* from Date.now(), read once for each, and writeFile(inputPath) is awaited.
CallEnters(c) ==
    /\ transcription.pc = "overlap"
    /\ transcription.call[c].pc = "idle"
    /\ \E fileName \in {"audio.opus", "clip.wav"},
          t1 \in transcription.now..MaxClock, later \in {0, 1} :
          LET t2 == IF t1 + later <= MaxClock THEN t1 + later ELSE t1
          IN  transcription' =
                [transcription EXCEPT
                    !.now = t2,
                    !.call[c] = [pc |-> "saving",
                                 fileName |-> fileName,
                                 inputPath |-> [dir |-> "tmp", prefix |-> "input",
                                                stamp |-> t1, name |-> fileName],
                                 wavPath |-> [dir |-> "tmp", prefix |-> "converted",
                                              stamp |-> t2, name |-> ".wav"]]]
    /\ RestUnchanged(<<frontDoor, llmCall, fileDownload, pageSolve>>)

\* writeFile of call c resolves and, unless the name ends with .wav, ffmpeg
\* runs (synchronously) and may write wavPath; the providers are called next.
CallSaved(c) ==
    /\ transcription.pc = "overlap"
    /\ transcription.call[c].pc = "saving"
    /\ \E written \in BOOLEAN :
          /\ transcription.call[c].fileName = "clip.wav" => ~written
          /\ transcription' =
                [transcription EXCEPT
                    !.disk = @ \cup {transcription.call[c].inputPath}
                               \cup (IF written THEN {transcription.call[c].wavPath} ELSE {}),
                    !.call[c].pc = "calling"]
    /\ RestUnchanged(<<frontDoor, llmCall, fileDownload, pageSolve>>)

\* Call c leaves its try block (writeFile rejected, a provider answered or
\* none is left): the finally block unlinks inputPath and wavPath, and the
\* call settles.
CallExits(c) ==
    /\ transcription.pc = "overlap"
    /\ transcription.call[c].pc \in {"saving", "calling"}
    /\ transcription' =
          [transcription EXCEPT
              !.disk = (@ \ {transcription.call[c].inputPath})
                          \ {transcription.call[c].wavPath},
              !.call[c].pc = "settled"]
    /\ RestUnchanged(<<frontDoor, llmCall, fileDownload, pageSolve>>)

OverlapSpec ==
    OverlapInit /\ [][\E c \in Calls : CallEnters(c) \/ CallSaved(c) \/ CallExits(c)]_vars

\* ---------------------------------------------------- downloadFile
\* solver-llm.js: one call of downloadFile(url, retries = 2).
DefaultDownloadRetries == 2
GetErrors == {"timeout", "status", "tooLarge"}
FileBytes == {"b1", "b2", "b3"}

\* A catch block that gives up one request early.
LastTryBug(i, retries) == i + 1 >= retries

\* if (i === retries) throw error
LastTry(i, retries) == i = retries

DownloadInit ==
    /\ SessionParked
    /\ frontDoor = Idle
    /\ llmCall = Idle
    /\ transcription = Idle
    /\ pageSolve = Idle
    /\ fileDownload \in
          [pc : {"entry"}, retries : 0..DefaultDownloadRetries, i : {0},
           gets : {<<>>},      \* the outcome of each GET made: "pending", its bytes or its error
           result : {"none"}, error : {"none"}]

\* The loop head: one more GET if i <= retries, else the function falls off
\* its end.
LoopTop(fd) ==
    IF fd.i <= fd.retries
    THEN [fd EXCEPT !.pc = "get", !.gets = Append(@, "pending")]
    ELSE [fd EXCEPT !.pc = "returned", !.result = "undefined"]

\* downloadFile is entered and issues the first GET.
GetBegin ==
    /\ fileDownload.pc = "entry"
    /\ fileDownload' = LoopTop(fileDownload)
    /\ RestUnchanged(<<frontDoor, llmCall, transcription, pageSolve>>)

\* The GET resolves: its bytes are returned.
GetOk ==
    /\ fileDownload.pc = "get"
    /\ \E b \in FileBytes :
          fileDownload' = [fileDownload EXCEPT
                              !.pc = "returned", !.result = b,
                              !.gets[Len(fileDownload.gets)] = b]
    /\ RestUnchanged(<<frontDoor, llmCall, transcription, pageSolve>>)

\* The GET rejects: rethrown on the last try, else a second of waiting.
GetFail ==
    /\ fileDownload.pc = "get"
    /\ \E e \in GetErrors :
          LET seen == [fileDownload EXCEPT !.gets[Len(fileDownload.gets)] = e]
          IN  fileDownload' =
                IF LastTry(fileDownload.i, fileDownload.retries)
                THEN [seen EXCEPT !.pc = "thrown", !.error = e]
                ELSE [seen EXCEPT !.pc = "wait"]
    /\ RestUnchanged(<<frontDoor, llmCall, transcription, pageSolve>>)

\* The second has passed: i++ and the loop head.
WaitDone ==
    /\ fileDownload.pc = "wait"
    /\ fileDownload' = LoopTop([fileDownload EXCEPT !.i = @ + 1])
    /\ RestUnchanged(<<frontDoor, llmCall, transcription, pageSolve>>)

DownloadSpec ==
    DownloadInit /\ [][GetBegin \/ GetOk \/ GetFail \/ WaitDone]_vars

\* ------------------------------------------- the data steps of a page call
\* The functions solveSinglePage applies to what it read and downloaded:
\* instruction extraction, the tabular decoders, numeric cleaning and the
\* choice of the final answer.  A data value is a number counted in
\* hundredths (1234.5 is 123450, the integer 5 is 500), so that decimals
\* with up to two fraction digits are exact.

\* A regular expression (?:p1|p2|...)\s*(\d+) with the i flag applied to
\* cs by String.match: the digits captured by the leftmost match, <<>> when
\* nothing matches.
NumberAfter(cs, phrases) ==
    LET low == LowerCase(cs)
        n == Len(low)
        at(i, p) == i + Len(p) - 1 <= n /\ SubSeq(low, i, i + Len(p) - 1) = p
        ink(j) == SetMin({k \in j..n : ~IsSpace(low[k])} \cup {n + 1})
        ok(i, p) == at(i, p) /\ ink(i + Len(p)) <= n /\ IsDigit(low[ink(i + Len(p))])
        hits == {i \in 1..n : \E k \in 1..Len(phrases) : ok(i, phrases[k])}
    IN  IF hits = {} THEN <<>>
        ELSE LET i == SetMin(hits)
                 k == SetMin({m \in 1..Len(phrases) : ok(i, phrases[m])})
                 d == ink(i + Len(phrases[k]))
                 e == SetMin({m \in d..n : ~IsDigit(low[m])} \cup {n + 1})
             IN  SubSeq(low, d, e - 1)

\* The comparison phrasings of parseAudioInstructions in the order of its
\* if / else-if chain: the operator, the alternatives of the test, and the
\* alternatives of the match that captures the number ("to?" gives two).
FilterPhrasings ==
    << [operator |-> ">=",
        test |-> {<<"g","r","e","a","t","e","r"," ","t","h","a","n"," ","o","r"," ","e","q","u","a","l">>, <<">","=">>, <<"a","t"," ","l","e","a","s","t">>},
        match |-> <<<<"g","r","e","a","t","e","r"," ","t","h","a","n"," ","o","r"," ","e","q","u","a","l"," ","t","o">>, <<"g","r","e","a","t","e","r"," ","t","h","a","n"," ","o","r"," ","e","q","u","a","l"," ","t">>,
                    <<">","=">>, <<"a","t"," ","l","e","a","s","t">>>>],
       [operator |-> "<=",
        test |-> {<<"l","e","s","s"," ","t","h","a","n"," ","o","r"," ","e","q","u","a","l">>, <<"<","=">>, <<"a","t"," ","m","o","s","t">>},
        match |-> <<<<"l","e","s","s"," ","t","h","a","n"," ","o","r"," ","e","q","u","a","l"," ","t","o">>, <<"l","e","s","s"," ","t","h","a","n"," ","o","r"," ","e","q","u","a","l"," ","t">>,
                    <<"<","=">>, <<"a","t"," ","m","o","s","t">>>>],
       [operator |-> ">",
        test |-> {<<"g","r","e","a","t","e","r"," ","t","h","a","n">>, <<">">>},
        match |-> <<<<"g","r","e","a","t","e","r"," ","t","h","a","n">>, <<">">>>>],
       [operator |-> "<",
        test |-> {<<"l","e","s","s"," ","t","h","a","n">>, <<"b","e","l","o","w">>, <<"<">>},
        match |-> <<<<"l","e","s","s"," ","t","h","a","n">>, <<"b","e","l","o","w">>, <<"<">>>>] >>

\* A chain that looks for the strict comparisons first.
FilterOrderBug == <<3, 4, 1, 2>>

\* The order of the if / else-if chain over the phrasings.
FilterOrder == <<1, 2, 3, 4>>

\* A chain without the if (match) guards: the phrasing present gives a
\* filter that lacks its value when no number follows it.
DetectFilterBug(transcript) ==
    LET order == FilterOrder
        low == LowerCase(transcript)
        present == {k \in 1..Len(order) :
                      \E w \in FilterPhrasings[order[k]].test : Contains(low, w)}
    IN  IF present = {} THEN Null
        ELSE LET c == FilterPhrasings[order[SetMin(present)]]
                 digits == NumberAfter(transcript, c.match)
             IN  IF digits = <<>> THEN [operator |-> c.operator]
                 ELSE [operator |-> c.operator, value |-> ParseInt(digits)]

\* Detect filters: the phrasings are tested in the order of the chain; the first
\* one whose test succeeds decides, and gives a filter only if its match
\* captures a number.
DetectFilter(transcript) ==
    LET order == FilterOrder
        low == LowerCase(transcript)
        present == {k \in 1..Len(order) :
                      \E w \in FilterPhrasings[order[k]].test : Contains(low, w)}
    IN  IF present = {} THEN Null
        ELSE LET c == FilterPhrasings[order[SetMin(present)]]
                 digits == NumberAfter(transcript, c.match)
             IN  IF digits = <<>> THEN Null
                 ELSE [operator |-> c.operator, value |-> ParseInt(digits)]

\* A parse that takes every transcript for a request to sum the first
\* column.
parseAudioInstructionsBug(transcript) ==
    IF transcript = Null \/ transcript = Str(<<>>) THEN Null
    ELSE [rawText |-> transcript,
          operation |-> "sum",
          filter |-> DetectFilter(transcript.s),
          target |-> "first_column"]

\* parseAudioInstructions(transcript): null without a transcript (null or
\* the empty string), else the operation, filter and target found in it,
\* each null when not found.
parseAudioInstructions(transcript) ==
    IF transcript = Null \/ transcript = Str(<<>>) THEN Null
    ELSE LET low == LowerCase(transcript.s)
             has(words) == \E w \in words : Contains(low, w)
         IN  [rawText |-> transcript,
              operation |->
                 IF has({<<"s","u","m">>, <<"a","d","d">>, <<"t","o","t","a","l">>, <<"a","g","g","r","e","g","a","t","e">>}) THEN "sum"
                 ELSE IF has({<<"c","o","u","n","t">>, <<"n","u","m","b","e","r"," ","o","f">>}) THEN "count"
                 ELSE IF has({<<"a","v","e","r","a","g","e">>, <<"m","e","a","n">>}) THEN "average"
                 ELSE IF has({<<"m","a","x","i","m","u","m">>, <<"m","a","x">>, <<"h","i","g","h","e","s","t">>}) THEN "max"
                 ELSE IF has({<<"m","i","n","i","m","u","m">>, <<"m","i","n">>, <<"l","o","w","e","s","t">>}) THEN "min"
                 ELSE "null",
              filter |-> DetectFilter(transcript.s),
              target |->
                 IF has({<<"f","i","r","s","t"," ","c","o","l","u","m","n">>}) THEN "first_column"
                 ELSE IF has({<<"a","l","l"," ","c","o","l","u","m","n">>, <<"e","v","e","r","y"," ","c","o","l","u","m","n">>}) THEN "all_columns"
                 ELSE "null"]

\* Transcripts used as inputs: null, the empty text, a single space, a
\* greeting, and one to three pieces of speech joined by " and ".
Transcripts ==
    LET P == << <<"a","t"," ","l","e","a","s","t"," ","1","0">>, <<"g","r","e","a","t","e","r"," ","t","h","a","n"," ","5">>, <<"a","t"," ","m","o","s","t"," ","7">>, <<"b","e","l","o","w"," ","3","0","0","6","4">>,
                <<"a","t"," ","l","e","a","s","t"," ","t","e","n">>, <<"g","r","e","a","t","e","r"," ","t","h","a","n"," ","o","r"," ","e","q","u","a","l"," ","4">>,
                <<"S","u","m"," ","t","h","e"," ","f","i","r","s","t"," ","c","o","l","u","m","n">>, <<">"," ","2">> >>
        and == <<" ","a","n","d"," ">>
        I == 1..Len(P)
    IN  {Null, Str(<<>>), Str(<<" ">>), Str(<<"h","e","l","l","o"," ","t","h","e","r","e">>)}
        \cup {Str(P[i]) : i \in I}
        \cup {Str(P[i] \o and \o P[j]) : i, j \in I}
        \cup {Str(P[i] \o and \o P[j] \o and \o P[k]) : i, j \in {1, 2, 5}, k \in I}

\* const y = val; Body(y): the value of Body for val, which is computed
\* once.
With(val, Body(_)) == CHOOSE r \in {Body(y) : y \in {val}} : TRUE

\* The value of a decimal text in hundredths, as a sequence of no or one
\* number: with whole = FALSE parseFloat(cs), which reads the longest
\* numeric prefix after leading white space; with whole = TRUE Number(cs),
\* for which all of cs must be the number.  <<>> stands for NaN.  Texts
\* with an exponent or more than two fraction digits are not among the
\* inputs, and Number is not applied to the empty text.
DecimalValue(cs, whole) ==
    LET run(u) == SetMin({k \in 1..Len(u) : ~IsDigit(u[k])} \cup {Len(u) + 1}) - 1
        value(negative, int, frac, complete) ==
            LET cents == ParseInt(SubSeq(frac \o <<"0", "0">>, 1, 2))
                size == 100 * ParseInt(int) + cents
            IN  IF int = <<>> /\ frac = <<>> THEN <<>>
                ELSE IF whole /\ ~complete THEN <<>>
                ELSE IF negative THEN <<0 - size>>
                ELSE <<size>>
        fraction(negative, int, rest) ==
            IF rest # <<>> /\ rest[1] = "."
            THEN With(SubSeq(rest, 2, 1 + run(Tail(rest))), LAMBDA frac :
                     value(negative, int, frac, Len(rest) = 1 + Len(frac)))
            ELSE value(negative, int, <<>>, rest = <<>>)
        number(negative, body) ==
            With(run(body), LAMBDA n :
                fraction(negative, SubSeq(body, 1, n), SubSeq(body, n + 1, Len(body))))
        signed(t) ==
            IF t # <<>> /\ t[1] \in {"-", "+"} THEN number(t[1] = "-", Tail(t))
            ELSE number(FALSE, t)
    IN  With(IF whole THEN Trim(cs) ELSE TrimLeft(cs), signed)

\* cs.split(sep) for a one-character separator.
SplitAt(cs, sep) ==
    LET cuts == {i \in 1..Len(cs) : cs[i] = sep}
        from(k) == IF k = 1 THEN 1
                   ELSE 1 + (CHOOSE i \in cuts : Cardinality({j \in cuts : j < i}) = k - 2)
        to(k) == SetMin({i \in cuts : i >= from(k)} \cup {Len(cs) + 1}) - 1
    IN  [k \in 1..(Cardinality(cuts) + 1) |-> SubSeq(cs, from(k), to(k))]

\* The sum of a sequence of numbers.
RECURSIVE SumSeq(_)
SumSeq(ns) == IF ns = <<>> THEN 0 ELSE Head(ns) + SumSeq(Tail(ns))

\* Object.keys of an object whose keys were written in the order of the
\* sequence keys: the keys spelled as array indices first, ascending, then
\* the others in the order of their first writing.
ObjectKeys(keys) ==
    LET kept == {i \in 1..Len(keys) : \A j \in 1..(i - 1) : keys[j] # keys[i]}
        index(i) == IsDigits(keys[i]) /\ (Len(keys[i]) = 1 \/ keys[i][1] # "0")
        before(j, i) ==
            IF index(j) /\ index(i) THEN ParseInt(keys[j]) < ParseInt(keys[i])
            ELSE IF index(j) # index(i) THEN index(j)
            ELSE j < i
        at(r) == CHOOSE i \in kept : Cardinality({j \in kept : before(j, i)}) = r - 1
    IN  [r \in 1..Cardinality(kept) |-> keys[at(r)]]

\* The rows csv-parser emits for a text: the cells of the first line are the
\* headers, every later line is one row that holds, under the header of its
\* position (or _i past the headers), each of its cells as written; an
\* empty line is a row without cells, and a line break at the end of the
\* text opens no further line.  A row is the sequence of its <<key, value>>
\* pairs in the order of Object.keys; a repeated key keeps the last value.
\* Cells in quotes are not among the inputs.
CsvParse(text) ==
    LET line(l) == IF l # <<>> /\ l[Len(l)] = "\r" THEN SubSeq(l, 1, Len(l) - 1) ELSE l
        cells(l) == IF line(l) = <<>> THEN <<>> ELSE With(line(l), LAMBDA c : SplitAt(c, ","))
        row(headers, cs) ==
            LET key(i) == IF i <= Len(headers) THEN headers[i]
                          ELSE <<"_">> \o NatToChars(i - 1)
                val(k) == cs[SetMax({j \in 1..Len(cs) : key(j) = k})]
            IN  With(ObjectKeys([i \in 1..Len(cs) |-> key(i)]), LAMBDA keys :
                    [r \in 1..Len(keys) |-> <<keys[r], val(keys[r])>>])
        parsed(pieces) ==
            LET n == IF pieces[Len(pieces)] = <<>> THEN Len(pieces) - 1 ELSE Len(pieces)
            IN  With(IF n = 0 THEN <<>> ELSE cells(pieces[1]), LAMBDA headers :
                    [headers |-> headers,
                     rows |-> [k \in 1..(IF n = 0 THEN 0 ELSE n - 1) |->
                                  With(cells(pieces[k + 1]), LAMBDA cs : row(headers, cs))]])
    IN  With(SplitAt(text, "\n"), parsed)

\* A decoder that takes every first line for a header.
isHeaderlessBug(numericCount, fields, tenths) == FALSE

\* The first line is data when the fraction of its fields that are numbers
\* is above the threshold, given in tenths (0.8 in processCSV, 0.6 in
\* sumCsvColumnEnhanced).
isHeaderless(numericCount, fields, tenths) == 10 * numericCount > tenths * fields

\* processCSV(csvContent, operations): operations.filter is null or
\* {operator, value}, operations.targetColumn null or a column name.
processCSV(csvContent, operations) ==
    LET trimmed(l) == With(SplitAt(l, ","), LAMBDA c : [i \in 1..Len(c) |-> Trim(c[i])])
        numericCount(firstValues) ==
            Cardinality({i \in 1..Len(firstValues) : DecimalValue(firstValues[i], FALSE) # <<>>})
        headerless(firstValues) ==
            isHeaderless(numericCount(firstValues), Len(firstValues), 8)
        named(values) ==
            [i \in 1..Len(values) |-> << <<"c", "o", "l">> \o NatToChars(i - 1), values[i] >>]
        parse(lines) ==
            IF With(trimmed(IF lines = <<>> THEN <<>> ELSE lines[1]), headerless)
            THEN [k \in 1..Len(lines) |-> With(trimmed(lines[k]), named)]
            ELSE CsvParse(csvContent).rows
        targetColumn == operations.targetColumn
        checked(cell) == /\ targetColumn # Null => cell[1] = targetColumn.s
                         /\ DecimalValue(cell[2], FALSE) # <<>>
        numbersOf(row) ==
            With(SelectSeq(row, checked), LAMBDA cells :
                [r \in 1..Len(cells) |-> DecimalValue(cells[r][2], FALSE)[1]])
        RECURSIVE numbersFrom(_, _)
        numbersFrom(rows, k) == IF k > Len(rows) THEN <<>>
                                ELSE numbersOf(rows[k]) \o numbersFrom(rows, k + 1)
        operator == operations.filter.operator
        value == 100 * operations.filter.value
        keep(m) == CASE operator = "<" -> m < value
                     [] operator = ">" -> m > value
                     [] operator = "<=" -> m <= value
                     [] operator = ">=" -> m >= value
                     [] operator = "==" -> m = value
                     [] OTHER -> TRUE
        filter(allNumbers) == IF operations.filter = Null THEN allNumbers
                              ELSE SelectSeq(allNumbers, keep)
    IN  With(With(NonBlankLines(csvContent), parse), LAMBDA rows :
            With(numbersFrom(rows, 1), LAMBDA allNumbers :
                With(filter(allNumbers), LAMBDA filtered :
                    [rows |-> rows, rowCount |-> Len(rows), allNumbers |-> allNumbers,
                     filtered |-> filtered, sum |-> SumSeq(filtered)])))

\* A merge in which the number of the page conditions wins over the filter
\* of the transcript.
CsvStepOperationsBug(audioInstructions, conditions) ==
    LET cutoffMatch == NumberAfter(conditions, << <<>> >>)
    IN  [filter |-> IF cutoffMatch # <<>>
                    THEN [operator |-> ">=", value |-> ParseInt(cutoffMatch)]
                    ELSE IF audioInstructions # Null THEN audioInstructions.filter
                    ELSE Null,
         targetColumn |-> IF audioInstructions # Null
                             /\ audioInstructions.target = "first_column"
                          THEN Str(<<"c", "o", "l", "0">>)
                          ELSE Null]

\* Step 6 of solveSinglePage (solver-llm.js): the filter and the target
\* column handed to processCSV for a downloaded CSV file.
CsvStepOperations(audioInstructions, conditions) ==
    LET cutoffMatch == NumberAfter(conditions, << <<>> >>)
        spoken == audioInstructions # Null /\ audioInstructions.filter # Null
    IN  [filter |-> IF spoken THEN audioInstructions.filter
                    ELSE IF cutoffMatch # <<>>
                         THEN [operator |-> ">=", value |-> ParseInt(cutoffMatch)]
                    ELSE Null,
         targetColumn |-> IF audioInstructions # Null
                             /\ audioInstructions.target = "first_column"
                          THEN Str(<<"c", "o", "l", "0">>)
                          ELSE Null]

\* A cleaning that takes a cell without a number for 0.
cleanNumberStringBug(cell) ==
    LET digits == SelectSeq(cell, IsDigit)
    IN  IF digits = <<>> THEN <<0>> ELSE <<100 * ParseInt(digits)>>

\* cleanNumberString(s) of sumCsvColumnEnhanced: the value of a cell in
\* hundredths, <<>> for null.  Of the currency signs the dollar sign is
\* among the inputs; the removal of outer double quotes is part of the
\* removal of every character that is none of 0-9 . - + e E.
cleanNumberString(cell) ==
    LET dropped(c) == c = "$" \/ IsSpace(c) \/ c = "," \/ c = "%"
        numeric(c) == IsDigit(c) \/ c \in {".", "-", "+", "e", "E"}
        keep(c) == ~dropped(c) /\ numeric(c)
        number(t) == IF t \in {<<>>, <<".">>, <<"-">>, <<"+">>} THEN <<>>
                     ELSE DecimalValue(t, TRUE)
        cleaned(t0) ==
            IF t0 = <<>> THEN <<>>
            ELSE IF Len(t0) >= 2 /\ t0[1] = "(" /\ t0[Len(t0)] = ")"
            THEN With(SelectSeq(<<"-">> \o SubSeq(t0, 2, Len(t0) - 1), keep), number)
            ELSE With(SelectSeq(t0, keep), number)
    IN  With(Trim(cell), cleaned)

\* The fallback of sumCsvColumnEnhanced: the sum, in hundredths, of the
\* numbers written in buffer from position from on, each a match of
\* /-?\d+(?:\.\d+)?/, those not below the cutoff left out.
RECURSIVE sumTextNumbers(_, _, _)
sumTextNumbers(buffer, from, cutoff) ==
    LET run(p) ==
            SetMin({q \in p..Len(buffer) : ~IsDigit(buffer[q])} \cup {Len(buffer) + 1})
        matchEnd(p) ==
            With(run(IF buffer[p] = "-" THEN p + 1 ELSE p), LAMBDA d :
                IF d < Len(buffer) /\ buffer[d] = "." /\ IsDigit(buffer[d + 1])
                THEN run(d + 1) ELSE d)
        under(v) == cutoff = <<>> \/ v < 100 * cutoff[1]
    IN  With({p \in from..Len(buffer) :
                 \/ IsDigit(buffer[p])
                 \/ buffer[p] = "-" /\ p < Len(buffer) /\ IsDigit(buffer[p + 1])},
             LAMBDA starts :
                 IF starts = {} THEN 0
                 ELSE With(matchEnd(SetMin(starts)), LAMBDA end :
                          With(DecimalValue(SubSeq(buffer, SetMin(starts), end - 1), TRUE)[1],
                               LAMBDA v : (IF under(v) THEN v ELSE 0)
                                          + sumTextNumbers(buffer, end, cutoff))))

\* sumCsvColumnEnhanced(buffer, cutoff) of solver.js, cutoff being <<>> for
\* null or <<N>>: the sum, in hundredths, of the best scored column, or of
\* the numbers written in the text when that column has no numeric hit.
sumCsvColumnEnhanced(text, cutoff) ==
    LET firstLine(first) == IF first # <<>> /\ first[Len(first)] = "\r"
                            THEN SubSeq(first, 1, Len(first) - 1) ELSE first
        plain(c) == With(Trim(c), LAMBDA u :
                        With(IF u # <<>> /\ u[1] = "-" THEN Tail(u) ELSE u, LAMBDA d :
                            IsDigits(d) \/ IsDecimal(d)))
        RECURSIVE synthHeader(_)
        synthHeader(i) == IF i = 0 THEN <<>>
                          ELSE synthHeader(i - 1) \o (IF i = 1 THEN <<>> ELSE <<",">>)
                               \o <<"c", "o", "l">> \o NatToChars(i)
        rebuilt(firstCols) ==
            IF isHeaderless(Cardinality({i \in 1..Len(firstCols) : plain(firstCols[i])}),
                            Len(firstCols), 6)
            THEN synthHeader(Len(firstCols)) \o <<"\n">> \o text
            ELSE text
        under(v) == cutoff = <<>> \/ v < 100 * cutoff[1]
        RECURSIVE rowKeys(_, _)
        rowKeys(rows, k) == IF k > Len(rows) THEN <<>>
                            ELSE [c \in 1..Len(rows[k]) |-> rows[k][c][1]] \o rowKeys(rows, k + 1)
        wordChar(c) == IsDigit(c) \/ c = "_" \/ c \in LowerAlpha \/ c \in UpperAlpha
        headerPriority(col) ==
            IF \E w \in {<<"v","a","l","u","e">>, <<"a","m","o","u","n","t">>, <<"p","r","i","c","e">>, <<"t","o","t","a","l">>, <<"s","u","m">>, <<"c","o","u","n","t">>,
                         <<"q","t","y">>, <<"q","u","a","n","t","i","t","y">>, <<"s","c","o","r","e">>, <<"p","o","i","n","t","s">>, <<"n","u","m","b","e","r">>} :
                   \E p \in 1..(Len(col) - Len(w) + 1) :
                       /\ LowerCase(SubSeq(col, p, p + Len(w) - 1)) = w
                       /\ p > 1 => ~wordChar(col[p - 1])
                       /\ p + Len(w) <= Len(col) => ~wordChar(col[p + Len(w)])
            THEN 1 ELSE 0
        \* the non-empty cells of a column, cleaned, and what the end handler
        \* makes of them
        RECURSIVE cellsOf(_, _, _)
        cellsOf(rows, col, k) ==
            IF k > Len(rows) THEN <<>>
            ELSE With(SelectSeq(rows[k], LAMBDA cell : cell[1] = col /\ Trim(cell[2]) # <<>>),
                      LAMBDA found : [i \in 1..Len(found) |-> cleanNumberString(found[i][2])])
                 \o cellsOf(rows, col, k + 1)
        counted(v) == v # <<>> /\ under(v[1])
        stats(rows, col) ==
            With(cellsOf(rows, col, 1), LAMBDA cells :
                With(SelectSeq(cells, counted), LAMBDA hits :
                    [numericHits |-> Len(hits), total |-> Len(cells),
                     headerPriority |-> headerPriority(col),
                     sum |-> SumSeq([i \in 1..Len(hits) |-> hits[i][1]])]))
        \* the score of a, multiplied by the totals of a and b
        scaled(a, b) ==
            LET den(c) == IF c.total = 0 THEN 1 ELSE c.total
            IN  (a.headerPriority * 1000 + a.numericHits) * den(a) * den(b)
                + 100 * a.numericHits * den(b)
        best(scored) ==
            scored[CHOOSE i \in 1..Len(scored) :
                      /\ \A j \in 1..Len(scored) :
                             scaled(scored[j], scored[i]) <= scaled(scored[i], scored[j])
                      /\ \A j \in 1..(i - 1) :
                             scaled(scored[j], scored[i]) < scaled(scored[i], scored[j])]
        end(buffer, parsed) ==
            With(ObjectKeys(parsed.headers \o rowKeys(parsed.rows, 1)), LAMBDA cols :
                IF cols = <<>> THEN sumTextNumbers(buffer, 1, cutoff)
                ELSE With(best([c \in 1..Len(cols) |-> stats(parsed.rows, cols[c])]),
                          LAMBDA top : IF top.numericHits > 0 THEN top.sum
                                       ELSE sumTextNumbers(buffer, 1, cutoff)))
    IN  With(With(With(SplitAt(text, "\n")[1], firstLine), LAMBDA l : rebuilt(SplitAt(l, ","))),
             LAMBDA buffer : With(CsvParse(buffer), LAMBDA parsed : end(buffer, parsed)))

\* CSV texts used as inputs: one column without header (the values 5, 95,
\* 150, 30), a header and two columns, two columns without header, a
\* first line of which three of four cells are numbers, a column of
\* amounts as people write them, a leading empty line, a column of names
\* beside a column of numbers, and the empty text.
CsvTexts ==
    { <<"5","\n","9","5","\n","1","5","0","\n","3","0","\n">>,
      <<"i","d",",","v","a","l","u","e","\n","1",",","5","\n","2",",","9","5","\n","3",",","1","5","0","\n">>,
      <<"7",",","2","0","0","\n","8",",","3","\n">>,
      <<"1",",","2",",","3",",","x","\n","4",",","5",",","6",",","7","\n">>,
      <<"p","r","i","c","e","\n","$","5","\n","(","5",")","\n","1","2","%","\n","a","b","c","\n">>,
      <<"\n","5","\n","9","5","\n">>,
      <<"n","a","m","e",",","n","\n","x",",","1","\n","y",",","2","\n">>,
      <<>> }

\* A call of one of the data functions with its arguments.
DataInit ==
    /\ SessionParked
    /\ frontDoor = Idle
    /\ llmCall = Idle
    /\ transcription = Idle
    /\ fileDownload = Idle
    /\ pageSolve \in
          {[pc |-> "called", fn |-> "parseAudioInstructions", args |-> a, result |-> Null] :
              a \in [transcript : Transcripts]}
          \cup
          {[pc |-> "called", fn |-> "csvStep", args |-> a, result |-> Null] :
              a \in [transcript : {t \in Transcripts : Len(t.s) <= 20 \/ StartsWith(t.s, <<"S","u","m"," ","t","h","e"," ","f","i","r","s","t"," ","c","o","l","u","m","n"," ","a","n","d"," ","a","t">>)}, conditions : ConditionTexts \cup {<<"a","t"," ","l","e","a","s","t"," ","5">>}, content : CsvTexts]}
          \cup
          {[pc |-> "called", fn |-> "processCSV", args |-> a, result |-> Null] :
              a \in [content : CsvTexts, operations : [filter : {Null} \cup [operator : {"<", "<=", ">", ">=", "==", "!="}, value : {5, 95, 100}], targetColumn : {Null, Str(<<"c","o","l","0">>)}]]}
          \cup
          {[pc |-> "called", fn |-> "sumCsvColumnEnhanced", args |-> a, result |-> Null] :
              a \in [content : CsvTexts, bodyText : ConditionTexts \cup {<<"C","u","t","o","f","f",":"," ","3">>}]}
          \cup
          {[pc |-> "called", fn |-> "cleanNumberString", args |-> a, result |-> Null] :
              a \in [cell : {<<"$","1",",","2","3","4",".","5","0">>, <<"(","5",")">>, <<"1","2","%">>, <<"a","b","c">>, <<>>, <<"N","/","A">>, <<"-">>, <<" ","7"," ">>, <<"-","3",".","5">>}]}
          \cup
          {[pc |-> "called", fn |-> "finalAnswer", args |-> a, result |-> Null] :
              a \in [answerResponse : LLMResponses \cup {<<"T","h","e"," ","s","u","m"," ","i","s"," ","'","x","'","\n","R","e","s","u","l","t",":"," ","\"","a","b","c","\"","\n","\n">>, <<"3",".","5","0">>}, csvSum : CsvSums, conditions : ConditionTexts \cup {<<"b","e","l","o","w"," ","t","h","e"," ","C","U","T","O","F","F">>, <<"a","t"," ","l","e","a","s","t"," ","5">>}]}

\* A data function is applied to its arguments and returns.
DataStep(fn, result) ==
    /\ pageSolve.pc = "called"
    /\ pageSolve.fn = fn
    /\ pageSolve' = [pageSolve EXCEPT !.pc = "returned", !.result = result]
    /\ RestUnchanged(<<frontDoor, llmCall, transcription, fileDownload>>)

DataSpec ==
    DataInit /\ [][\/ DataStep("parseAudioInstructions", parseAudioInstructions(pageSolve.args.transcript))
                    \/ DataStep("csvStep", LET ops == CsvStepOperations(parseAudioInstructions(pageSolve.args.transcript), pageSolve.args.conditions) IN [operations |-> ops, csvResult |-> processCSV(pageSolve.args.content, ops)])
                    \/ DataStep("processCSV", processCSV(pageSolve.args.content, pageSolve.args.operations))
                    \/ DataStep("sumCsvColumnEnhanced", sumCsvColumnEnhanced(pageSolve.args.content, LET m == NumberAfter(pageSolve.args.bodyText, << <<"c","u","t","o","f","f",":">> >>) IN IF m = <<>> THEN <<>> ELSE <<ParseInt(m)>>))
                    \/ DataStep("cleanNumberString", cleanNumberString(pageSolve.args.cell))
                    \/ DataStep("finalAnswer", FinalAnswer(pageSolve.args.answerResponse, pageSolve.args.csvSum, pageSolve.args.conditions))]_vars

\* ------------------------------------------------------------ claim helpers
\* A submission response is handled in this step by solver-llm.js (every
\* handled response appends one history entry).
LlmHandled ==
    /\ driver = "llm"
    /\ pc \in {"post", "fallback"}
    /\ Len(taskHistory') > Len(taskHistory)

\* The JSON texts of the answers judged so far in the current task.
JudgedInTask ==
    {Stringify(taskHistory[i].answer) : i \in (taskStart + 1)..Len(taskHistory)}

\* A task body is running (llm or js).
InTask == pc \in {"resolve", "post", "fallback", "retryWait", "taskWait"}

\* A submission POST is issued in this step.
PostIssued == inflight' # NoPost /\ (inflight = NoPost \/ pc' # pc)

\* ------------------------------------------------------------------- claims

\* C1: a task gets at most MAX_RETRIES_PER_TASK attempts, and once the third
\* attempt was answered incorrect with a new answer and without a next URL
\* the session terminates: no new task is started.
C1_RetryCeilingTerminates ==
    /\ [](attempt <= MAX_RETRIES_PER_TASK)
    /\ [][(/\ driver = "llm"
           /\ pc = "taskWait"
           /\ ~submitSuccess
           /\ attempt = MAX_RETRIES_PER_TASK
           /\ submitResp.url = NoUrl)
          => (pc' # "resolve" /\ taskCount' = taskCount)]_vars

\* C2: an incorrect response for an answer whose JSON text equals that of an
\* answer already judged incorrect in the same task ends the task at once:
\* the next URL of the response is adopted if there is one, otherwise the
\* session leaves its loop.  So a JSON text is judged at most twice in a
\* task, and the second time is the last submission of the task.
C2_DuplicateAnswerStops ==
    /\ [][(/\ LlmHandled
           /\ ~submitResp'.correct
           /\ Stringify(answer) \in JudgedInTask)
          => (/\ attempt' = attempt
              /\ taskCount' = taskCount
              /\ IF submitResp'.url # NoUrl
                 THEN currentUrl' = submitResp'.url /\ pc' = "taskWait"
                 ELSE currentUrl' = NoUrl /\ pc' = "closing")]_vars
    /\ [](driver = "llm" =>
            \A i, j \in (taskStart + 1)..Len(taskHistory) :
                (i < j /\ Stringify(taskHistory[i].answer) = Stringify(taskHistory[j].answer))
                => (j = Len(taskHistory) /\ pc \notin {"resolve", "post", "fallback", "retryWait"}))
    /\ [][(driver = "llm" /\ pc = "taskWait")
          => (attempt' = attempt \/ (pc' = "resolve" /\ taskCount' = taskCount + 1))]_vars

\* C2 witness: 42 was answered twice, both judged incorrect without a next
\* URL, and the session left its loop after the second submission.
C2_Witness ==
    /\ driver = "llm"
    /\ pc = "closing"
    /\ currentUrl = NoUrl
    /\ taskCount = 1
    /\ Len(taskHistory) = 2
    /\ \A i \in 1..2 : taskHistory[i].answer = Num(42) /\ ~taskHistory[i].correct

\* C3: a correct response appends exactly one entry with correct = TRUE,
\* ends the task, and makes the next URL of the response the current URL;
\* without a next URL the current URL is cleared and the session leaves its
\* loop without starting another task.
C3_CorrectAdvances ==
    /\ [][(LlmHandled /\ submitResp'.correct)
          => (/\ taskHistory' = Append(taskHistory,
                    [url |-> currentUrl, answer |-> answer,
                     correct |-> TRUE, reason |-> "absent"])
              /\ submitSuccess'
              /\ attempt' = attempt
              /\ taskCount' = taskCount
              /\ currentUrl' = submitResp'.url
              /\ pc' = "taskWait")]_vars
    /\ [][(driver = "llm" /\ pc = "taskWait" /\ currentUrl = NoUrl)
          => (pc' \in {"closing", "closingCatch"} /\ taskCount' = taskCount)]_vars
    /\ [][(driver = "llm" /\ pc = "taskWait" /\ pc' = "resolve")
          => (currentUrl' = currentUrl /\ taskCount' = taskCount + 1 /\ attempt' = 1)]_vars

\* C3 witness: the first task (u1) was answered correctly with next URL u2,
\* which is now the current URL.
C3_Witness ==
    /\ driver = "llm"
    /\ pc = "taskWait"
    /\ submitSuccess
    /\ currentUrl = "u2"
    /\ Len(taskHistory) = 1
    /\ taskHistory[1].correct
    /\ taskHistory[1].url = "u1"

\* C4: when the last allowed attempt is answered incorrect and the response
\* carries a next URL, that URL becomes the current URL and the task ends
\* without the loop being left and without another attempt.
C4_LastAttemptAdvances ==
    [][(/\ LlmHandled
        /\ ~submitResp'.correct
        /\ attempt = MAX_RETRIES_PER_TASK
        /\ submitResp'.url # NoUrl)
       => (/\ currentUrl' = submitResp'.url
           /\ pc' = "taskWait"
           /\ attempt' = attempt
           /\ taskCount' = taskCount)]_vars

\* C4 witness: the third attempt on u1 gave a third distinct wrong answer and
\* the response offered u2, now the current URL.
C4_Witness ==
    /\ driver = "llm"
    /\ pc = "taskWait"
    /\ attempt = MAX_RETRIES_PER_TASK
    /\ ~submitSuccess
    /\ Len(previousAnswers) = 3
    /\ taskHistory[Len(taskHistory)].url = "u1"
    /\ submitResp.url = "u2"
    /\ currentUrl = "u2"

\* C5: the task counter grows only by one, only when at that moment a
\* current URL exists, the deadline has not elapsed and fewer than MAX_TASKS
\* tasks were started; it never exceeds MAX_TASKS.
C5_TaskStartGuard ==
    /\ [](taskCount <= MAX_TASKS)
    /\ [][taskCount' # taskCount
          => (/\ taskCount' = taskCount + 1
              /\ currentUrl # NoUrl
              /\ currentUrl' = currentUrl
              /\ elapsed < TIMEOUT_MS
              /\ taskCount < MAX_TASKS)]_vars

\* C5 witness: the loop was left because MAX_TASKS tasks had been started,
\* with a current URL and before the deadline.
C5_Witness ==
    /\ pc = "closing"
    /\ taskCount = MAX_TASKS
    /\ currentUrl # NoUrl
    /\ elapsed < TIMEOUT_MS

C7_NoPostAfterDeadline ==
    [][PostIssued => elapsed < TIMEOUT_MS]_vars

\* C8: a launched browser is closed exactly once: close is never invoked a
\* second time and the browser is not open after solveQuiz has ended.
C8_ClosedExactlyOnce ==
    /\ closeCalls <= 1
    /\ (pc \in Terminal /\ browser # "none") => (closeCalls = 1 /\ browser = "closed")

\* C9: every session has a guard timer while its loop runs; the timer closes
\* the browser only at deadline plus grace, and once solveQuiz has returned
\* the timer is cancelled or has fired.
C9_GuardTimer ==
    /\ InTask => timer # "none"
    /\ timer = "fired" => elapsed >= TIMEOUT_MS + GRACE_MS
    /\ (pc = "done" /\ browser # "none") => timer \in {"cleared", "fired"}

\* C10: the answer of every submission payload is neither null, undefined,
\* an empty or whitespace-only string, nor the number 0.
C10_AnswerNeverEmpty ==
    inflight # NoPost =>
        /\ inflight.answer \notin {Null, Undefined}
        /\ ~(inflight.answer.t = "string" /\ Trim(inflight.answer.s) = <<>>)
        /\ ~IsZero(inflight.answer)

C12_NoSubmitUrlEndsCleanly ==
    /\ (pageSolve.pc = "thrown" => pageSolve.cause # "invalidUrl")
    /\ (/\ pageSolve.pc = "returned"
        /\ ~pageSolve.in.submitShown
        /\ ~pageSolve.in.hierarchical) => pageSolve.submitUrl = NoUrl

\* C13: solveQuiz is called only for a request that is JSON, has an object
\* body and brings the configured secret; a request that is not JSON is
\* answered 400 and one without the right secret 403, and neither starts a
\* session.
C13_OnlyAuthenticatedStarts ==
    \A r \in Requests :
        LET req == frontDoor.req[r]
            ev == frontDoor.events[r]
            right == req.secret # "none" /\ req.secret = frontDoor.SERVER_SECRET
        IN  /\ (\E i \in 1..Len(ev) : ev[i] = "solveQuiz")
                => (req.json /\ req.body = "object" /\ right)
            /\ (frontDoor.at[r] # "arrived" /\ ~req.json)
                => (ev = <<"400">> /\ frontDoor.at[r] = "closed")
            /\ (frontDoor.at[r] # "arrived" /\ req.json /\ req.body = "object" /\ ~right)
                => (ev = <<"403">> /\ frontDoor.at[r] = "closed")

\* C13 witness: of two JSON requests the one with a wrong secret was answered
\* 403 and the one with the right secret started a session.
C13_Witness ==
    /\ frontDoor.pc = "listening"
    /\ frontDoor.req[1].json /\ frontDoor.req[1].secret = "s2"
    /\ frontDoor.events[1] = <<"403">>
    /\ frontDoor.SERVER_SECRET = "s1"
    /\ frontDoor.at[2] = "solving"

\* C14: an accepted request is acknowledged with 200 before solveQuiz is
\* called; a request never gets more than one response, and the outcome of
\* the session adds none and changes none.
C14_AckBeforeSession ==
    /\ [](frontDoor.pc = "listening" =>
            \A r \in Requests :
                LET ev == frontDoor.events[r]
                IN  /\ Len(Responses(ev)) <= 1
                    /\ frontDoor.at[r] # "arrived" => Len(Responses(ev)) = 1
                    /\ \A i \in 1..Len(ev) :
                          ev[i] = "solveQuiz" => (i > 1 /\ ev[i - 1] = "200"))
    /\ [][frontDoor.pc = "listening" =>
            \A r \in Requests :
                frontDoor.at[r] # "arrived" =>
                    Responses(frontDoor'.events[r]) = Responses(frontDoor.events[r])]_vars

\* C14 witness: the session of an acknowledged request failed and the
\* request still has its one response, the 200.
C14_Witness ==
    /\ frontDoor.pc = "listening"
    /\ frontDoor.events[1] = <<"200", "solveQuiz", "rejected">>
    /\ frontDoor.at[1] = "finished"

\* C15: callLLM makes at most retries + 1 rounds; a round calls the preferred
\* model and the other model only after the preferred one returned nothing;
\* the first text a call returns is the result and no call follows it; the
\* error 'All LLM attempts failed' comes only after every call of every
\* round returned nothing, at most six calls with the default of 2 retries.
C15_CallLLMRounds ==
    (llmCall.pc # "idle" /\ llmCall.mode = "call") =>
        LET n == Len(llmCall.calls)
            a == llmCall.answers
        IN  /\ n <= 2 * (llmCall.retries + 1)
            /\ n <= 6
            /\ \A i \in 1..n :
                  llmCall.calls[i] = IF i % 2 = 1
                                     THEN llmCall.preferredModel
                                     ELSE OtherModel(llmCall.preferredModel)
            /\ Len(a) <= n
            /\ \A i \in 1..Len(a) : (i < n => a[i] = LlmNull)
            /\ llmCall.pc = "returned" =>
                  /\ Len(a) = n
                  /\ a[n] # LlmNull
                  /\ llmCall.result = a[n]
            /\ llmCall.pc = "thrown" =>
                  /\ llmCall.error = "All LLM attempts failed"
                  /\ n = 2 * (llmCall.retries + 1)
                  /\ Len(a) = n
                  /\ \A i \in 1..n : a[i] = LlmNull

\* C15 witness: with the default options the sixth call was the last one and
\* the error was thrown.
C15_Witness ==
    /\ llmCall.pc = "thrown"
    /\ llmCall.mode = "call"
    /\ llmCall.retries = MAX_RETRIES
    /\ llmCall.calls = <<"openai", "groq", "openai", "groq", "openai", "groq">>

\* C16: callLLMWithVoting makes both provider calls at once, and its outcome
\* depends on what the two calls returned and not on which finished first:
\* the OpenAI result if there is one, else the Groq result, and the error
\* exactly when both returned nothing.
C16_VoteOrderFree ==
    (llmCall.pc # "idle" /\ llmCall.mode = "vote" /\ llmCall.pc # "entry") =>
        LET oa == llmCall.answers["openai"]
            gq == llmCall.answers["groq"]
        IN  /\ llmCall.calls = <<"openai", "groq">>
            /\ llmCall.pc = "voting" => (oa = "pending" \/ gq = "pending")
            /\ llmCall.pc \in {"returned", "thrown"} =>
                  /\ oa # "pending" /\ gq # "pending"
                  /\ (llmCall.pc = "thrown") <=> (oa = LlmNull /\ gq = LlmNull)
                  /\ llmCall.pc = "thrown" => llmCall.error = "All models failed"
                  /\ llmCall.pc = "returned" =>
                        llmCall.result = (IF oa # LlmNull THEN oa ELSE gq)

\* C16 witness: Groq finished first with a text, OpenAI second with another
\* text, and the OpenAI text is the result.
C16_Witness ==
    /\ llmCall.pc = "returned"
    /\ llmCall.mode = "vote"
    /\ llmCall.order = <<"groq", "openai">>
    /\ llmCall.answers["groq"] = "t1"
    /\ llmCall.answers["openai"] = "t2"
    /\ llmCall.result = "t2"

\* C17: once the audio is saved, transcribeAudio calls the providers in
\* the order OpenAI, AIPipe, Groq; a provider is called only if its key is
\* configured and every provider before it is unconfigured or has failed;
\* the answer of the first provider that answers is the result; with no
\* provider configured, or all configured ones failed, the result is null and
\* nothing is raised, and the caller goes on without audio instructions.
C17_ProviderOrder ==
    (transcription.pc # "idle") =>
        LET tr == transcription
            pos(p) == CHOOSE i \in 1..Len(TranscriptionOrder) : TranscriptionOrder[i] = p
            n == Len(tr.calls)
        IN  /\ \A i \in 1..n :
                  /\ tr.calls[i] \in tr.keys
                  /\ \A j \in 1..n : i < j => pos(tr.calls[i]) < pos(tr.calls[j])
                  /\ \A k \in 1..(pos(tr.calls[i]) - 1) :
                        TranscriptionOrder[k] \notin tr.keys
                        \/ TranscriptionOrder[k] \in tr.failed
            /\ tr.failed \subseteq {tr.calls[i] : i \in 1..n}
            /\ (tr.pc \in {"returned", "caller"} /\ tr.result # TranscribeNull) =>
                  /\ n > 0
                  /\ tr.calls[n] \notin tr.failed
                  /\ tr.failed = {tr.calls[i] : i \in 1..(n - 1)}
            /\ (tr.pc \in {"returned", "caller"} /\ tr.result = TranscribeNull) =>
                  tr.failed = tr.keys
            /\ (tr.pc \in {"returned", "caller"} /\ tr.failed = tr.keys) =>
                  tr.result = TranscribeNull
            /\ tr.pc = "thrown" => (tr.error = "writeFile" /\ n = 0)
            /\ (tr.pc = "caller" /\ tr.result = TranscribeNull) =>
                  tr.audioInstructions = "none"

\* C17 witness: all three providers were configured and called in order,
\* all three failed, null was returned and the caller went on without
\* audio instructions.
C17_Witness ==
    /\ transcription.pc = "caller"
    /\ transcription.calls = <<"openai", "aipipe", "groq">>
    /\ transcription.failed = {"openai", "aipipe", "groq"}
    /\ transcription.result = TranscribeNull
    /\ transcription.audioInstructions = "none"

\* C18: downloadFile makes at most retries + 1 GET requests, three with the
\* default; it returns the bytes of the first request that succeeds and
\* makes no request after it; it raises only after request retries + 1
\* failed, and raises the error of that request.
C18_DownloadTries ==
    (fileDownload.pc # "idle") =>
        LET fd == fileDownload
            n == Len(fd.gets)
        IN  /\ n <= fd.retries + 1
            /\ n <= DefaultDownloadRetries + 1
            /\ \A k \in 1..(n - 1) : fd.gets[k] \in GetErrors
            /\ fd.pc = "returned" =>
                  /\ n >= 1
                  /\ fd.gets[n] \in FileBytes
                  /\ fd.result = fd.gets[n]
            /\ fd.pc = "thrown" =>
                  /\ n = fd.retries + 1
                  /\ fd.gets[n] \in GetErrors
                  /\ fd.error = fd.gets[n]

\* C18 witness: with the default of 2 retries three requests failed, each
\* with a different error, and the error of the third was raised.
C18_Witness ==
    /\ fileDownload.pc = "thrown"
    /\ fileDownload.retries = DefaultDownloadRetries
    /\ fileDownload.gets = <<"timeout", "status", "tooLarge">>
    /\ fileDownload.error = "tooLarge"

\* C19: a download that fails, or a file that cannot be decoded, never makes
\* solveSinglePage throw: the file is left out and an answer is returned, on
\* every branch, the CSV download after a failed audio step included.
C19_FileFailureNeverAborts ==
    pageSolve.pc = "thrown" => pageSolve.cause \notin {"download", "decode"}

\* C20: when the reasoning capability fails on all providers, solveSinglePage
\* does not throw: the attempt goes on and returns an answer to submit.
C20_LlmFailureGoesOn ==
    pageSolve.pc = "thrown" => pageSolve.cause # "llm"

\* C21: the comparison phrasings are tried in the order >= / at least, then
\* <= / at most, then >, then <, and the first phrasing present decides: a
\* transcript that holds "at least 10" as its only phrasing of the first
\* kind together with "greater than 5", in either order, gives the filter
\* >= 10.
C21_FilterPrecedence ==
    (pageSolve.pc = "returned" /\ pageSolve.fn = "parseAudioInstructions") =>
        LET t == pageSolve.args.transcript
            low == LowerCase(t.s)
            has(w) == Contains(low, w)
            f == pageSolve.result.filter
        IN  pageSolve.result # Null =>
            /\ (has(<<"a","t"," ","l","e","a","s","t"," ","1","0">>) /\ has(<<"g","r","e","a","t","e","r"," ","t","h","a","n"," ","5">>)) =>
                   f = [operator |-> ">=", value |-> 10]
            /\ (f # Null /\ f.operator = "<=") => ~has(<<"a","t"," ","l","e","a","s","t">>)
            /\ (f # Null /\ f.operator = ">") => (~has(<<"a","t"," ","l","e","a","s","t">>) /\ ~has(<<"a","t"," ","m","o","s","t">>))
            /\ (f # Null /\ f.operator = "<") =>
                   (~has(<<"a","t"," ","l","e","a","s","t">>) /\ ~has(<<"a","t"," ","m","o","s","t">>) /\ ~has(<<">">>)
                    /\ ~has(<<"g","r","e","a","t","e","r"," ","t","h","a","n">>))

\* C21 witness: "greater than 5" comes first in the transcript, "at least
\* 10" second, and the filter is >= 10.
C21_Witness ==
    /\ pageSolve.pc = "returned"
    /\ pageSolve.fn = "parseAudioInstructions"
    /\ pageSolve.args.transcript = Str(<<"g","r","e","a","t","e","r"," ","t","h","a","n"," ","5"," ","a","n","d"," ","a","t"," ","l","e","a","s","t"," ","1","0">>)
    /\ pageSolve.result.filter = [operator |-> ">=", value |-> 10]


\* C22: in the CSV step the filter of the transcript wins over the one of
\* the page conditions (page >= 5 and transcript < 30064 give < 30064);
\* without a filter in the transcript the filter of the page conditions is
\* applied, and the target column named by the transcript is used whether or
\* not the transcript gave the filter.
C22_TranscriptOverrides ==
    (pageSolve.pc = "returned" /\ pageSolve.fn = "csvStep") =>
        LET t == pageSolve.args.transcript
            conditions == pageSolve.args.conditions
            spoken == parseAudioInstructions(t)
            ops == pageSolve.result.operations
            firstColumn == t # Null /\ Contains(LowerCase(t.s), <<"f","i","r","s","t"," ","c","o","l","u","m","n">>)
        IN  /\ (spoken # Null /\ spoken.filter # Null) => ops.filter = spoken.filter
            /\ (t = Str(<<"b","e","l","o","w"," ","3","0","0","6","4">>) /\ conditions = <<"a","t"," ","l","e","a","s","t"," ","5">>) =>
                   ops.filter = [operator |-> "<", value |-> 30064]
            /\ ((spoken = Null \/ spoken.filter = Null) /\ conditions = <<"a","t"," ","l","e","a","s","t"," ","5">>) =>
                   ops.filter = [operator |-> ">=", value |-> 5]
            /\ ((spoken = Null \/ spoken.filter = Null) /\ conditions = <<"C","u","t","o","f","f",":"," ","1","0","0">>) =>
                   ops.filter = [operator |-> ">=", value |-> 100]
            /\ firstColumn <=> ops.targetColumn = Str(<<"c","o","l","0">>)
            /\ ops.targetColumn # Null =>
                   \A k \in 1..Len(pageSolve.result.csvResult.allNumbers) :
                       \E r \in 1..Len(pageSolve.result.csvResult.rows) :
                           \E c \in 1..Len(pageSolve.result.csvResult.rows[r]) :
                               /\ pageSolve.result.csvResult.rows[r][c][1] = <<"c","o","l","0">>
                               /\ DecimalValue(pageSolve.result.csvResult.rows[r][c][2], FALSE)
                                      = <<pageSolve.result.csvResult.allNumbers[k]>>

\* C22 witness: the page conditions say at least 5, the transcript says
\* below 30064, and the filter handed to processCSV is < 30064.
C22_Witness ==
    /\ pageSolve.pc = "returned"
    /\ pageSolve.fn = "csvStep"
    /\ pageSolve.args.transcript = Str(<<"b","e","l","o","w"," ","3","0","0","6","4">>)
    /\ pageSolve.args.conditions = <<"a","t"," ","l","e","a","s","t"," ","5">>
    /\ pageSolve.result.operations.filter = [operator |-> "<", value |-> 30064]

\* C24 (as claimed): in the CSV step, without a filter from the audio and
\* with a cutoff N in the page conditions, the filter applied is < N, so
\* that cutoff 100 and the values 5, 95, 150, 30 give the sum 130.
C24_PageCutoffIsBelow ==
    (/\ pageSolve.pc = "returned"
     /\ pageSolve.fn = "csvStep"
     /\ pageSolve.args.transcript = Null
     /\ pageSolve.args.conditions = <<"C","u","t","o","f","f",":"," ","1","0","0">>) =>
        /\ pageSolve.result.operations.filter = [operator |-> "<", value |-> 100]
        /\ pageSolve.args.content = <<"5","\n","9","5","\n","1","5","0","\n","3","0","\n">> =>
               pageSolve.result.csvResult.sum = 100 * 130

C28_FilterExact ==
    (/\ pageSolve.pc = "returned"
     /\ pageSolve.fn = "processCSV"
     /\ pageSolve.args.operations.filter # Null) =>
        LET f == pageSolve.args.operations.filter
            satisfies(m) == CASE f.operator = "<" -> m < 100 * f.value
                              [] f.operator = "<=" -> m <= 100 * f.value
                              [] f.operator = ">" -> m > 100 * f.value
                              [] f.operator = ">=" -> m >= 100 * f.value
                              [] f.operator = "==" -> m = 100 * f.value
                              [] f.operator = "!=" -> m # 100 * f.value
        IN  /\ pageSolve.result.filtered = SelectSeq(pageSolve.result.allNumbers, satisfies)
            /\ pageSolve.result.sum = SumSeq(pageSolve.result.filtered)

\* C23 (as claimed): for the one-column CSV of the values 5, 95, 150, 30
\* without a header and a page cutoff N, sumCsvColumnEnhanced returns the
\* sum of the values below N: 130 for cutoff 100, and 0 when no value is
\* below the cutoff.
C23_SumBelowCutoff ==
    (/\ pageSolve.pc = "returned"
     /\ pageSolve.fn = "sumCsvColumnEnhanced"
     /\ pageSolve.args.content = <<"5","\n","9","5","\n","1","5","0","\n","3","0","\n">>) =>
        /\ pageSolve.args.bodyText = <<"C","u","t","o","f","f",":"," ","1","0","0">> => pageSolve.result = 100 * 130
        /\ pageSolve.args.bodyText = <<"C","u","t","o","f","f",":"," ","3">> => pageSolve.result = 0

\* C25: when the fraction of numeric fields of the first non-empty line is
\* above the threshold (0.8 in processCSV, 0.6 in sumCsvColumnEnhanced) that
\* line is data: processCSV gives one row per non-empty line, its columns
\* named col0, col1, ..., with the numbers of the first line at the head of
\* the extracted numbers and in the sum; sumCsvColumnEnhanced returns the sum
\* of one column over all lines, the first included.
C25_FirstLineIsData ==
    LET content == pageSolve.args.content
        lines == NonBlankLines(content)
        fields(l) == SplitAt(l, ",")
        floats(l) == {i \in 1..Len(fields(l)) : DecimalValue(fields(l)[i], FALSE) # <<>>}
        plain(l) == {i \in 1..Len(fields(l)) : DecimalValue(fields(l)[i], TRUE) # <<>>}
        RECURSIVE lineNumbers(_, _)
        lineNumbers(l, i) ==
            IF i > Len(fields(l)) THEN <<>>
            ELSE DecimalValue(fields(l)[i], FALSE) \o lineNumbers(l, i + 1)
        RECURSIVE columnSum(_, _)
        columnSum(i, k) ==
            IF k > Len(lines) THEN 0
            ELSE (IF i \in plain(lines[k]) THEN DecimalValue(fields(lines[k])[i], TRUE)[1] ELSE 0)
                 + columnSum(i, k + 1)
    IN  /\ (/\ pageSolve.pc = "returned"
            /\ pageSolve.fn = "processCSV"
            /\ lines # <<>>
            /\ 10 * Cardinality(floats(lines[1])) > 8 * Len(fields(lines[1]))) =>
               /\ Len(pageSolve.result.rows) = Len(lines)
               /\ \A k \in 1..Len(lines) :
                      /\ Len(pageSolve.result.rows[k]) = Len(fields(lines[k]))
                      /\ \A i \in 1..Len(fields(lines[k])) :
                             pageSolve.result.rows[k][i][1] = <<"c","o","l">> \o NatToChars(i - 1)
               /\ pageSolve.args.operations.targetColumn = Null =>
                      SubSeq(pageSolve.result.allNumbers, 1, Cardinality(floats(lines[1])))
                          = lineNumbers(lines[1], 1)
               /\ pageSolve.args.operations.filter = Null =>
                      pageSolve.result.sum = SumSeq(pageSolve.result.allNumbers)
        /\ (/\ pageSolve.pc = "returned"
            /\ pageSolve.fn = "sumCsvColumnEnhanced"
            /\ pageSolve.args.bodyText = <<>>
            /\ content # <<>>
            /\ content[1] # "\n"
            /\ 10 * Cardinality(plain(lines[1])) > 6 * Len(fields(lines[1]))) =>
               \E i \in plain(lines[1]) : pageSolve.result = columnSum(i, 1)

\* C25 witness: the one-column CSV 5, 95, 150, 30 has been decoded by
\* processCSV without filter, and its first extracted number is 5.
C25_Witness ==
    /\ pageSolve.pc = "returned"
    /\ pageSolve.fn = "processCSV"
    /\ pageSolve.args.content = <<"5","\n","9","5","\n","1","5","0","\n","3","0","\n">>
    /\ pageSolve.args.operations.filter = Null
    /\ pageSolve.result.rowCount = 4
    /\ pageSolve.result.allNumbers[1] = 500

\* C26: cleaning gives 1234.5 for "$1,234.50", -5 for "(5)" and 12 for
\* "12%"; a cell without a number gives no value, and such a cell adds
\* neither to the count nor to the sum of its column.
C26_NumericCleaning ==
    /\ (pageSolve.pc = "returned" /\ pageSolve.fn = "cleanNumberString") =>
           /\ pageSolve.args.cell = <<"$","1",",","2","3","4",".","5","0">> => pageSolve.result = <<123450>>
           /\ pageSolve.args.cell = <<"(","5",")">> => pageSolve.result = <<0 - 500>>
           /\ pageSolve.args.cell = <<"1","2","%">> => pageSolve.result = <<1200>>
           /\ (\A i \in 1..Len(pageSolve.args.cell) : ~IsDigit(pageSolve.args.cell[i])) =>
                  pageSolve.result = <<>>
    /\ (/\ pageSolve.pc = "returned"
        /\ pageSolve.fn = "sumCsvColumnEnhanced"
        /\ pageSolve.args.bodyText = <<>>) =>
           /\ pageSolve.args.content = <<"p","r","i","c","e","\n","$","5","\n","(","5",")","\n","1","2","%","\n","a","b","c","\n">> =>
                  pageSolve.result = 1200
           /\ pageSolve.args.content = <<"n","a","m","e",",","n","\n","x",",","1","\n","y",",","2","\n">> => pageSolve.result = 300

\* C26 witness: the cell "abc" has been cleaned and has no value.
C26_Witness ==
    /\ pageSolve.pc = "returned"
    /\ pageSolve.fn = "cleanNumberString"
    /\ pageSolve.args.cell = <<"a","b","c">>
    /\ pageSolve.result = <<>>

\* C30: the final answer of solveSinglePage (solver-llm.js) is the CSV sum
\* exactly when a CSV sum was computed and the conditions mention a cutoff;
\* otherwise it is the answer of the reasoning capability without prefix
\* label, quotes and back-quotes, a text of digits only being the number.
C30_FinalAnswer ==
    (pageSolve.pc = "returned" /\ pageSolve.fn = "finalAnswer") =>
        LET response == pageSolve.args.answerResponse
            csvSum == pageSolve.args.csvSum
            conditions == pageSolve.args.conditions
            cutoff == conditions \in {<<"C","u","t","o","f","f",":"," ","1","0","0">>, <<"b","e","l","o","w"," ","t","h","e"," ","C","U","T","O","F","F">>}
            override == csvSum # Undefined /\ cutoff
            a == pageSolve.result
        IN  /\ override => a = csvSum
            /\ ~override =>
                   /\ response = <<"4","2">> => a = Num(42)
                   /\ response = <<"0">> => a = Num(0)
                   /\ response = <<"A","n","s","w","e","r",":">> => a = Str(<<>>)
                   /\ response = <<"F","i","n","a","l"," ","A","n","s","w","e","r",":"," ",
                                   "bq","4","2","bq","\n">> => a = Num(42)
                   /\ response = <<"T","h","e"," ","s","u","m"," ","i","s"," ","'","x","'","\n","R","e","s","u","l","t",":"," ","\"","a","b","c","\"","\n","\n">> => a = Str(<<"a","b","c">>)
                   /\ a.t = "string" =>
                          /\ \A i \in 1..Len(a.s) : a.s[i] \notin {"bq", "'", "\""}
                          /\ ~IsDigits(a.s)
                          /\ a.s = Trim(a.s)

\* C30 witness: no CSV sum was computed, the reasoning capability said
\* Final Answer: 42 in back-quotes, and the final answer is the number 42.
C30_Witness ==
    /\ pageSolve.pc = "returned"
    /\ pageSolve.fn = "finalAnswer"
    /\ pageSolve.args.csvSum = Undefined
    /\ pageSolve.args.conditions = <<"C","u","t","o","f","f",":"," ","1","0","0">>
    /\ Len(pageSolve.args.answerResponse) = 19
    /\ pageSolve.result = Num(42)

\* C29 (as claimed): solveSinglePage of solver.js runs its strategies in the
\* order audio, CSV link, file URL of the JSON block, numbers of the page
\* text; a strategy is run only when every earlier one was unavailable or
\* was run without giving an answer, and an answer that is 0 comes from the
\* last strategy only.
C29_StrategyOrder ==
    (pageSolve.driver = "js" /\ pageSolve.pc = "returned" /\ pageSolve.from # "secret") =>
        LET Order == <<"audio", "csv", "file", "text">>
            available(k) == CASE k = 1 -> pageSolve.in.audio
                              [] k = 2 -> pageSolve.in.csv
                              [] k = 3 -> pageSolve.in.pdf
                              [] OTHER -> TRUE
            ran(k) == \E i \in 1..Len(pageSolve.tried) : pageSolve.tried[i] = Order[k]
        IN  /\ \A k \in 1..4 : ran(k) =>
                   \A e \in 1..(k - 1) : ~available(e) \/ ran(e)
            /\ pageSolve.zero => pageSolve.from = "text"
\* C31: an incorrect response for an answer not yet judged in the task, with
\* attempts remaining, keeps the current URL (a next URL of the response is
\* not adopted) and leads to the pause before a retry; the pause is followed
\* by a new call of solveSinglePage for the same URL as the next attempt of
\* the same task, with no answer or submit URL kept from the attempt before;
\* what that call returns is submitted for the same URL.
C31_RetryResolvesAgain ==
    /\ [][(/\ LlmHandled
           /\ ~submitResp'.correct
           /\ Stringify(answer) \notin JudgedInTask
           /\ attempt < MAX_RETRIES_PER_TASK)
          => (/\ pc' = "retryWait"
              /\ currentUrl' = currentUrl
              /\ attempt' = attempt
              /\ taskCount' = taskCount)]_vars
    /\ [][(driver = "llm" /\ pc = "retryWait")
          => (/\ pc' = "resolve"
              /\ attempt' = attempt + 1
              /\ currentUrl' = currentUrl
              /\ taskCount' = taskCount
              /\ answer' = Undefined
              /\ submitUrl' = NoUrl
              /\ inflight' = NoPost
              /\ taskHistory' = taskHistory)]_vars
    /\ [][(driver = "llm" /\ pc = "resolve" /\ pc' = "post")
          => (/\ inflight'.url = currentUrl
              /\ inflight'.answer = answer'
              /\ inflight'.target = submitUrl'
              /\ currentUrl' = currentUrl)]_vars
    /\ (driver = "llm" /\ pc = "retryWait") ~> (pc = "resolve" /\ attempt >= 2)

\* C31 witness: the first two attempts on u1 were both judged incorrect with
\* different answers; the second response offered u2, which was not adopted,
\* and the session pauses before the third attempt on u1.
C31_Witness ==
    /\ driver = "llm"
    /\ pc = "retryWait"
    /\ attempt = 2
    /\ taskCount = 1
    /\ currentUrl = "u1"
    /\ submitResp.url = "u2"
    /\ ~submitResp.correct
    /\ Len(taskHistory) = 2
    /\ taskHistory[1].answer # taskHistory[2].answer
    /\ \A i \in 1..2 : taskHistory[i].url = "u1" /\ ~taskHistory[i].correct

\* C32 (as claimed): with no target column, sumCsvColumnEnhanced returns the
\* sum of the column with the highest score
\* headerPriority * 1000 + hitRatio * 100 + numericHits, the first such
\* column in file order on a tie; when that column has no numeric hit the
\* result is the sum of the numbers written in the file content that are
\* below the cutoff.  Stated for the CSV texts whose first line is not
\* empty; their headers are single words, so a header has priority when it
\* is one of the priority words.
C32_BestColumnOrRawText ==
    LET content == pageSolve.args.content
        m == NumberAfter(pageSolve.args.bodyText, << <<"c","u","t","o","f","f",":">> >>)
        cutoff == IF m = <<>> THEN <<>> ELSE <<ParseInt(m)>>
        lines == LET ls == SplitAt(content, "\n")
                 IN  IF ls[Len(ls)] = <<>> THEN SubSeq(ls, 1, Len(ls) - 1) ELSE ls
        fields(l) == SplitAt(l, ",")
        first == fields(lines[1])
        headerless ==
            10 * Cardinality({i \in 1..Len(first) : DecimalValue(first[i], TRUE) # <<>>})
                > 6 * Len(first)
        data == IF headerless THEN lines ELSE Tail(lines)
        name(i) == IF headerless THEN <<"c","o","l">> \o NatToChars(i) ELSE first[i]
        priority(i) ==
            IF LowerCase(name(i)) \in {<<"v","a","l","u","e">>, <<"a","m","o","u","n","t">>, <<"p","r","i","c","e">>, <<"t","o","t","a","l">>, <<"s","u","m">>,
                                       <<"c","o","u","n","t">>, <<"q","t","y">>, <<"q","u","a","n","t","i","t","y">>, <<"s","c","o","r","e">>,
                                       <<"p","o","i","n","t","s">>, <<"n","u","m","b","e","r">>}
            THEN 1 ELSE 0
        filled(i) == {k \in 1..Len(data) :
                         Len(fields(data[k])) >= i /\ Trim(fields(data[k])[i]) # <<>>}
        value(i, k) == cleanNumberString(fields(data[k])[i])
        hits(i) == {k \in filled(i) :
                       /\ value(i, k) # <<>>
                       /\ (cutoff = <<>> \/ value(i, k)[1] < 100 * cutoff[1])}
        RECURSIVE sum(_, _)
        sum(i, k) == IF k > Len(data) THEN 0
                     ELSE (IF k \in hits(i) THEN value(i, k)[1] ELSE 0) + sum(i, k + 1)
        total(i) == IF filled(i) = {} THEN 1 ELSE Cardinality(filled(i))
        \* the score of column i, multiplied by the totals of i and j
        scaled(i, j) == (priority(i) * 1000 + Cardinality(hits(i))) * total(i) * total(j)
                        + 100 * Cardinality(hits(i)) * total(j)
        best == CHOOSE i \in 1..Len(first) :
                    /\ \A j \in 1..Len(first) : scaled(j, i) <= scaled(i, j)
                    /\ \A j \in 1..(i - 1) : scaled(j, i) < scaled(i, j)
    IN  (/\ pageSolve.pc = "returned"
         /\ pageSolve.fn = "sumCsvColumnEnhanced"
         /\ content # <<>>
         /\ content[1] # "\n") =>
            pageSolve.result = IF hits(best) # {} THEN sum(best, 1)
                               ELSE sumTextNumbers(content, 1, cutoff)

\* A submission response is received in this step by solver-llm.js.
ResponseReceived ==
    /\ driver = "llm"
    /\ pc \in {"post", "fallback"}
    /\ submitResp'.present

\* C33: the task history only grows at its end: a step in which a submission
\* response is received appends exactly one entry, made of the current URL,
\* the answer that was posted, the verdict of the response and, for an
\* incorrect verdict, its reason (an entry for a correct answer has no
\* reason field); every other step, an attempt ending with an exception
\* included, leaves the history as it is.
C33_HistoryAppendOnly ==
    /\ [][ResponseReceived =>
            taskHistory' = Append(taskHistory,
                [url |-> currentUrl,
                 answer |-> inflight.answer,
                 correct |-> submitResp'.correct,
                 reason |-> IF submitResp'.correct THEN "absent"
                            ELSE submitResp'.reason])]_vars
    /\ [][~ResponseReceived => taskHistory' = taskHistory]_vars
    /\ [][/\ Len(taskHistory') >= Len(taskHistory)
          /\ SubSeq(taskHistory', 1, Len(taskHistory)) = taskHistory]_vars

\* C33 witness: the third attempt of the first task is running and the
\* history holds one entry: of the two attempts that ended, one was judged
\* and one ended with an exception, which added nothing.
C33_Witness ==
    /\ driver = "llm"
    /\ pc = "resolve"
    /\ taskCount = 1
    /\ attempt = 3
    /\ Len(taskHistory) = 1
    /\ taskHistory[1].url = "u1"
    /\ ~taskHistory[1].correct

\* The main loop awaits an operation of the page: a call of solveSinglePage
\* (navigations, evaluations and secondary scrapes, one after the other) or
\* the pause page.waitForTimeout at the end of a loop body.
PageOpInFlight == pc \in {"resolve", "taskWait"}

\* The one page of the session is created in this step or was created before.
OnePageOnly ==
    /\ (pc # "start") => (pc' # "start")
    /\ (pc' = "launch" /\ pc # "launch") => pc = "start"
    /\ (pc' = "newPage" /\ pc # "newPage") => pc = "launch"
    /\ (PageOpInFlight' /\ ~PageOpInFlight) =>
           pc \in {"newPage", "post", "fallback", "retryWait"}

\* C34 (as claimed): a session creates its page once, before the first task,
\* every page operation of the main loop is awaited before the next one is
\* started, and the browser is open whenever the main loop has a page
\* operation in flight.
C34_NeverClosedInFlight ==
    /\ [][OnePageOnly]_vars
    /\ [](PageOpInFlight => browser = "open")

\* C34 (amended): a session creates its page once, before the first task,
\* and every page operation of the main loop is awaited before the next one
\* is started; the browser is closed under a page operation in flight only
\* by the guard timer of solver.js, at TIMEOUT_MS + 1 s or later, and never
\* in a session of solver-llm.js.
C34_ClosedInFlightOnlyByGuard ==
    /\ [][OnePageOnly]_vars
    /\ [](PageOpInFlight => browser # "none")
    /\ []((driver = "llm" /\ PageOpInFlight) => browser = "open")
    /\ [][(PageOpInFlight /\ browser = "open" /\ browser' = "closed" /\ PageOpInFlight')
          => (/\ driver = "js"
              /\ timer = "armed"
              /\ timer' = "fired"
              /\ pc' = pc
              /\ elapsed >= TIMEOUT_MS + GRACE_MS)]_vars

\* C34 witness: the guard timer of a solver.js session has closed the
\* browser while the call of solveSinglePage of the first task is pending.
C34_Witness ==
    /\ driver = "js"
    /\ pc = "resolve"
    /\ taskCount = 1
    /\ timer = "fired"
    /\ browser = "closed"
    /\ closeCalls = 1
    /\ elapsed >= TIMEOUT_MS + GRACE_MS

\* C35: parseAudioInstructions returns null exactly for a null or empty
\* transcript; for every other transcript it returns an object that carries
\* the transcript, with no operation when none of the operation words
\* occurs in it, no filter when none of the comparison phrasings occurs,
\* and no target when it names no column.
C35_NullOnlyWithoutTranscript ==
    LET t == pageSolve.args.transcript
        low == LowerCase(t.s)
        none(words) == \A w \in words : ~Contains(low, w)
    IN  (pageSolve.pc = "returned" /\ pageSolve.fn = "parseAudioInstructions") =>
            /\ (pageSolve.result = Null) <=> (t = Null \/ (t.t = "string" /\ Len(t.s) = 0))
            /\ pageSolve.result # Null =>
                  /\ pageSolve.result.rawText = t
                  /\ none({<<"s","u","m">>, <<"a","d","d">>, <<"t","o","t","a","l">>, <<"a","g","g","r","e","g","a","t","e">>, <<"c","o","u","n","t">>,
                           <<"n","u","m","b","e","r"," ","o","f">>, <<"a","v","e","r","a","g","e">>, <<"m","e","a","n">>, <<"m","a","x">>, <<"h","i","g","h","e","s","t">>,
                           <<"m","i","n">>, <<"l","o","w","e","s","t">>})
                        => pageSolve.result.operation = "null"
                  /\ none({<<"g","r","e","a","t","e","r"," ","t","h","a","n">>, <<">">>, <<"a","t"," ","l","e","a","s","t">>, <<"l","e","s","s"," ","t","h","a","n">>,
                           <<"<">>, <<"a","t"," ","m","o","s","t">>, <<"b","e","l","o","w">>})
                        => pageSolve.result.filter = Null
                  /\ none({<<"f","i","r","s","t"," ","c","o","l","u","m","n">>, <<"a","l","l"," ","c","o","l","u","m","n">>, <<"e","v","e","r","y"," ","c","o","l","u","m","n">>})
                        => pageSolve.result.target = "null"

\* C35 witness: for a transcript of one space the call has returned an
\* object without operation, filter and target.
C35_Witness ==
    /\ pageSolve.pc = "returned"
    /\ pageSolve.fn = "parseAudioInstructions"
    /\ pageSolve.args.transcript = Str(<<" ">>)
    /\ pageSolve.result # Null
    /\ pageSolve.result.operation = "null"
    /\ pageSolve.result.filter = Null
    /\ pageSolve.result.target = "null"

\* C36 (as claimed): without a configured server secret every request that
\* was handled got the one response 403 and started no session.
C36_AllRejected403 ==
    (frontDoor.pc = "listening" /\ frontDoor.SERVER_SECRET = "none") =>
        \A r \in Requests :
            frontDoor.at[r] # "arrived" =>
                (frontDoor.events[r] = <<"403">> /\ frontDoor.at[r] = "closed")

\* C36 (amended): without a configured server secret no request starts a
\* session, whatever secret it brings or lacks: a handled request that is
\* JSON with an object body got the one response 403, and any other handled
\* request the one response 400.
C36_NoSessionWithoutServerSecret ==
    (frontDoor.pc = "listening" /\ frontDoor.SERVER_SECRET = "none") =>
        \A r \in Requests :
            LET req == frontDoor.req[r]
                ev == frontDoor.events[r]
            IN  /\ \A i \in 1..Len(ev) : ev[i] \notin {"200", "solveQuiz"}
                /\ frontDoor.at[r] \in {"arrived", "closed"}
                /\ frontDoor.at[r] = "closed" =>
                      ev = IF req.json /\ req.body = "object" THEN <<"403">> ELSE <<"400">>

\* C36 witness: no server secret is configured and two JSON requests, one
\* without a secret and one with the secret s1, were both answered 403.
C36_Witness ==
    /\ frontDoor.pc = "listening"
    /\ frontDoor.SERVER_SECRET = "none"
    /\ \A r \in Requests : frontDoor.req[r].json /\ frontDoor.req[r].body = "object"
    /\ frontDoor.req[1].secret = "none"
    /\ frontDoor.req[2].secret = "s1"
    /\ \A r \in Requests : frontDoor.events[r] = <<"403">> /\ frontDoor.at[r] = "closed"

\* C37 (as claimed): once an incorrect response of a task has offered a
\* next URL, the session does not end at that task for want of a URL: as
\* long as the task is the current one, the loop is not left with the
\* current URL cleared and no correct answer, whatever the later attempts of
\* the task end with.
C37_OfferedUrlKept ==
    \A n \in 1..MAX_TASKS :
        []((/\ driver = "llm"
            /\ taskCount = n
            /\ submitResp.present
            /\ ~submitResp.correct
            /\ submitResp.url # NoUrl)
           => [](taskCount = n =>
                    ~(pc \in {"closing", "done"} /\ currentUrl = NoUrl /\ ~submitSuccess)))

\* C38: when a call of transcribeAudio has completed, by returning a
\* transcript, the empty text or null, or by raising, the removal of the
\* saved input and of the converted WAV was attempted, each once and in that
\* order, and neither file exists; no removal is attempted while the call is
\* still saving or calling a provider.
C38_TempFilesRemoved ==
    /\ transcription.pc \in {"returned", "thrown", "caller"} =>
          /\ transcription.unlinked = <<"input", "wav">>
          /\ transcription.disk = {}
    /\ transcription.pc \in {"saving", "calling"} => transcription.unlinked = <<>>

\* C38 witness: the conversion failed after writing a part of the WAV, the
\* saved input was sent to the one configured provider, which failed; null
\* was returned with both removals attempted and no file left.
C38_Witness ==
    /\ transcription.pc = "returned"
    /\ ~transcription.wav
    /\ transcription.fileToTranscribe = "input"
    /\ transcription.calls = <<"groq">>
    /\ transcription.failed = {"groq"}
    /\ transcription.result = TranscribeNull
    /\ transcription.unlinked = <<"input", "wav">>
    /\ transcription.disk = {}

\* C39 (as claimed): two calls of transcribeAudio that overlap in time have
\* no temporary path in common: neither the saved input nor the converted
\* WAV of one is a path the other writes, reads or unlinks.
C39_NoSharedTempPath ==
    transcription.pc = "overlap" =>
        \A c, d \in Calls :
            (/\ c # d
             /\ transcription.call[c].pc \in {"saving", "calling"}
             /\ transcription.call[d].pc \in {"saving", "calling"}) =>
                {transcription.call[c].inputPath, transcription.call[c].wavPath}
                    \cap {transcription.call[d].inputPath, transcription.call[d].wavPath} = {}

====
